---- MODULE Spec2Model ----
(***************************************************************************)
(* Model of the presentation-archive interchange engine of the report      *)
(* builder: handlePptxUpload (decode of a .pptx archive into the slide /   *)
(* element model, src/views/ReportBuilder.tsx) and generateCustomReport    *)
(* (re-encode of the slide list through rendered snapshots, src/types.ts). *)
(*                                                                         *)
(* Conventions.  A JavaScript string that the code inspects is a sequence  *)
(* of one-character strings (text) or of path tokens (archive paths); a    *)
(* string that is only compared is a TLA+ string, "" standing for an       *)
(* absent or empty one.  A JavaScript number is an integer, or NaN.  An    *)
(* XML attribute is a record [k, n] giving the class of its text and the   *)
(* integer parseInt reads from it.                                         *)
(***************************************************************************)
EXTENDS Integers, Sequences, FiniteSets, TLC

VARIABLES
    slides,             \* useState slides: Seq of [id, background, elements]
    activeSlideIdx,     \* useState activeSlideIdx (0-based, as in the code)
    selectedElementId,  \* useState selectedElementId (NoId = null)
    isProcessingPptx,   \* useState isProcessingPptx
    isExporting,        \* useState isExporting
    projectLog,         \* the reportConfig of every onUpdateProject+saveProject call
    alerts,             \* the messages passed to alert(), in order
    now,                \* Date.now(), advanced at every step that reads it
    \* --- one run of handlePptxUpload (an async function) ---
    upPc,               \* "idle" | "loading" | "decoding" | "reading"
    archive,            \* the file handed to the handler
    upSlides,           \* `slides` as captured by the handler's closure
    pptWidthEmu,        \* local pptWidthEmu
    slideFiles,         \* local slideFiles, after the sort
    fileIdx,            \* number of slideFiles already visited by the for loop
    newSlides,          \* local newSlides
    relsMap,            \* local relsMap of the slide visited last
    \* --- one run of handleExport / generateCustomReport ---
    exPc,               \* "idle" | "timer" | "running" | "done"
    exSlides,           \* `slides` as captured by handleExport's closure
    exSlideIdx,         \* 1-based index of the slide being exported
    exElIdx,            \* number of elements of that slide already visited
    pptxOut,            \* the slides added to the pptx object, with their images
    pptxWritten,        \* number of pptx.writeFile calls
    rasterFails,        \* whether html2canvas rejected in the current export
    libs,               \* the libraries present on window
    \* --- the dashboard view: handleExportPPT / generatePowerPoint ---
    anExporting,        \* useState isExporting of the dashboard view
    dashPc,             \* "idle" | "timer" | "running"
    dashFilters,        \* `filters` as captured by handleExportPPT's closure
    dashWidgets,        \* the .report-widget nodes found by querySelectorAll
    dashIdx,            \* 1-based index of the widget being captured
    dashOut,            \* the slides added to the pptx object
    dashWritten,        \* number of pptx.writeFile calls
    \* --- the AI agent view ---
    sourceMode,         \* useState sourceMode: "project" | "upload"
    gridData,           \* useState gridData: Seq of rows
    columns,            \* useState columns: Seq of column keys
    filters,            \* useState filters: column -> allowed values or NoFilter
    selection,          \* useState selection (NoSelection = null)
    targetCol,          \* useState targetCol (NoCol = null)
    pendingActionPrompt, \* whether pendingActionPrompt holds a prompt
    showTargetModal,    \* useState showTargetModal
    isProcessing,       \* useState isProcessing
    isUploading,        \* useState isUploading
    \* --- one run of executeAction (an async function) ---
    aiPc,               \* "idle" | "pending"
    aiClosure,          \* what the handler's closure captured
    \* --- one run of handleFileUpload (an async function) ---
    fuPc,               \* "idle" | "parsing"
    fuFile              \* the rows parseExcelFile will produce

editorVars == <<slides, activeSlideIdx, selectedElementId, isProcessingPptx,
                isExporting, projectLog, alerts, now>>
uploadVars == <<upPc, archive, upSlides, pptWidthEmu, slideFiles, fileIdx,
                newSlides, relsMap>>
exportVars == <<exPc, exSlides, exSlideIdx, exElIdx, pptxOut, pptxWritten,
                rasterFails>>
dashVars == <<anExporting, dashPc, dashFilters, dashWidgets, dashIdx, dashOut,
              dashWritten>>
agentVars == <<sourceMode, gridData, columns, filters, selection, targetCol,
               pendingActionPrompt, showTargetModal, isProcessing, isUploading,
               aiPc, aiClosure, fuPc, fuFile>>
vars == <<editorVars, uploadVars, exportVars, libs, dashVars, agentVars>>

----------------------------------------------------------------------------
(* Program constants *)

CANVAS_WIDTH == 960
CANVAS_HEIGHT == 540
DEFAULT_PPT_WIDTH_EMU == 9144000
MIN_VISIBLE_PX == 5
MIN_TEXT_W == 50
MIN_TEXT_H == 20
DEFAULT_FONT_PX == 14
\* PPT_WIDTH_INCH = 10 and PPT_HEIGHT_INCH = 5.625 = 45 / 8
PPT_WIDTH_INCH == 10
PPT_HEIGHT_NUM == 45
PPT_HEIGHT_DEN == 8

\* The JavaScript value NaN (what parseInt returns for text with no leading
\* numeral).  Every numeric operator below treats it apart; no number of the
\* model comes near it.
NaN == -2000000000

NoId == <<>>          \* null / undefined identifier
NoFile == [openable |-> FALSE]

----------------------------------------------------------------------------
(* Numbers *)

IsNaN(v) == v = NaN

\* a < b in JavaScript: false when either side is NaN
JsLess(a, b) == ~IsNaN(a) /\ ~IsNaN(b) /\ a < b

\* Math.max(a, b): NaN when either side is NaN
JsMax(a, b) == IF IsNaN(a) \/ IsNaN(b) THEN NaN ELSE IF a >= b THEN a ELSE b

RECURSIVE GCD(_, _)
GCD(a, b) == IF b = 0 THEN a ELSE GCD(b, a % b)

\* Math.round(n / d) for d > 0: the nearest integer, halves rounded up
RoundDiv(n, d) ==
    LET q == n \div d
        r == n % d
    IN  IF 2 * r >= d THEN q + 1 ELSE q

\* Mutant of emuToPx: scales by the canvas height instead of the width.
emuToPxByHeight(emu, widthEmu) ==
    IF IsNaN(emu) THEN NaN
    ELSE LET g == GCD(CANVAS_HEIGHT, widthEmu)
         IN  RoundDiv(emu * (CANVAS_HEIGHT \div g), widthEmu \div g)

\* emuToPx = Math.round(emu * (CANVAS_WIDTH / pptWidthEmu)); the fraction is
\* reduced first so that the product stays in range.
emuToPx(emu, widthEmu) ==
    IF IsNaN(emu) THEN NaN
    ELSE LET g == GCD(CANVAS_WIDTH, widthEmu)
         IN  RoundDiv(emu * (CANVAS_WIDTH \div g), widthEmu \div g)

----------------------------------------------------------------------------
(* XML attributes and parseInt *)

AbsentAttr == [k |-> "absent", n |-> 0]        \* getAttribute returns null
EmptyAttr == [k |-> "empty", n |-> 0]          \* ""
TextAttr == [k |-> "text", n |-> 0]            \* no leading numeral: "abc"
IntAttr(i) == [k |-> "int", n |-> i]           \* a decimal integer: "914400"
PrefixAttr(i) == [k |-> "prefix", n |-> i]     \* numeral then other text: "12pt"

\* a JavaScript string is truthy when it is non-empty
AttrTruthy(a) == a.k \notin {"absent", "empty"}

\* parseInt(s) of a non-empty string
parseInt(a) == IF a.k \in {"int", "prefix"} THEN a.n ELSE NaN

\* parseInt(el.getAttribute(name) || "0")
parseIntOr0(a) == IF AttrTruthy(a) THEN parseInt(a) ELSE 0

\* parseInt of the digits of a slide entry name (the capture group (\d+))
RECURSIVE DigitsValue(_)
DigitsValue(ds) ==
    IF ds = <<>> THEN 0
    ELSE 10 * DigitsValue(SubSeq(ds, 1, Len(ds) - 1)) + ds[Len(ds)]

----------------------------------------------------------------------------
(* 1. Identify slides: the filter and the sort of handlePptxUpload *)

\* name.match(/ppt\/slides\/slide\d+\.xml/) on an entry name
\* prefix ++ digits ++ suffix
IsSlideFile(f) ==
    /\ f.prefix = "ppt/slides/slide"
    /\ Len(f.digits) >= 1
    /\ f.suffix = ".xml"

\* Array.prototype.filter
RECURSIVE FilterSlideFiles(_)
FilterSlideFiles(fs) ==
    IF fs = <<>> THEN <<>>
    ELSE IF IsSlideFile(Head(fs))
         THEN <<Head(fs)>> \o FilterSlideFiles(Tail(fs))
         ELSE FilterSlideFiles(Tail(fs))

\* the order of two digit strings as strings (what sort() without a
\* comparator would use): negative, zero or positive
RECURSIVE LexCompare(_, _)
LexCompare(a, b) ==
    IF a = <<>> /\ b = <<>> THEN 0
    ELSE IF a = <<>> THEN -1
    ELSE IF b = <<>> THEN 1
    ELSE IF Head(a) # Head(b) THEN Head(a) - Head(b)
    ELSE LexCompare(Tail(a), Tail(b))

\* Mutant of compareSlideFiles: compares the names as strings.
compareSlideNames(a, b) == LexCompare(a.digits, b.digits)

\* the comparator (a, b) => numA - numB
compareSlideFiles(a, b) == DigitsValue(a.digits) - DigitsValue(b.digits)

\* Array.prototype.sort is stable: an element goes after every element that
\* does not compare greater than it
RECURSIVE InsertSlideFile(_, _)
InsertSlideFile(sorted, f) ==
    IF sorted = <<>> THEN <<f>>
    ELSE IF compareSlideFiles(sorted[Len(sorted)], f) <= 0
         THEN Append(sorted, f)
         ELSE Append(InsertSlideFile(SubSeq(sorted, 1, Len(sorted) - 1), f),
                     sorted[Len(sorted)])

RECURSIVE SortSlideFiles(_)
SortSlideFiles(fs) ==
    IF fs = <<>> THEN <<>>
    ELSE InsertSlideFile(SortSlideFiles(SubSeq(fs, 1, Len(fs) - 1)), fs[Len(fs)])

----------------------------------------------------------------------------
(* 2. Relationships *)

RECURSIVE IndexOfToken(_, _, _)
IndexOfToken(path, tok, i) ==
    IF i > Len(path) THEN 0
    ELSE IF path[i] = tok THEN i
    ELSE IndexOfToken(path, tok, i + 1)

\* String.prototype.replace with a string pattern: the first occurrence only
ReplaceFirst(path, tok, by) ==
    LET i == IndexOfToken(path, tok, 1)
    IN  IF i = 0 THEN path ELSE [path EXCEPT ![i] = by]

StartsWith(path, tok) == Len(path) >= 1 /\ path[1] = tok

\* Mutant of CleanTarget: rewrites the first '../' wherever it stands.
CleanTargetAnywhere(target) == ReplaceFirst(target, "../", "ppt/")

\* cleanTarget of a relationship target
CleanTarget(target) ==
    IF StartsWith(target, "../") THEN ReplaceFirst(target, "../", "ppt/")
    ELSE target

\* relsMap[id] = cleanTarget, for the relationships with an Id and a Target
RECURSIVE BuildRelsMap(_, _, _)
BuildRelsMap(rels, i, map) ==
    IF i > Len(rels) THEN map
    ELSE LET id == rels[i].id
             target == rels[i].target
         IN  IF id # "" /\ target # <<>>
             THEN BuildRelsMap(rels, i + 1,
                     [k \in DOMAIN map \cup {id} |->
                         IF k = id THEN CleanTarget(target) ELSE map[k]])
             ELSE BuildRelsMap(rels, i + 1, map)

EmptyRelsMap == [k \in {} |-> <<>>]

\* relsMap of a slide: empty when the .rels entry is absent or empty
SlideRelsMap(rels) ==
    IF rels.read = "ok" THEN BuildRelsMap(rels.list, 1, EmptyRelsMap)
    ELSE EmptyRelsMap

----------------------------------------------------------------------------
(* 3. Text bodies: paragraphs, runs and the first-run style *)

NoStyle == [fontSize |-> 0, color |-> "", fontWeight |-> "", fontStyle |-> "",
            textAlign |-> "", fontFamily |-> ""]

\* the defaults of the style capture; fontSize is the number before "px" and
\* color the six digits after "#"
DefaultStyle == [fontSize |-> DEFAULT_FONT_PX, color |-> "333333",
                 fontWeight |-> "normal", fontStyle |-> "normal",
                 textAlign |-> "left", fontFamily |-> "Arial"]

NoRPr == [has |-> FALSE, sz |-> AbsentAttr, b |-> "", i |-> "", srgb |-> "",
          typeface |-> ""]

Whitespace == {" ", "\n", "\t"}

\* fullText.trim() is a non-empty string
TrimIsNonEmpty(text) == \E i \in 1..Len(text) : text[i] \notin Whitespace

\* the style read from a run's rPr
ApplyRunProperties(rPr, st) ==
    [st EXCEPT
        !.fontSize = IF AttrTruthy(rPr.sz)
                     THEN (IF IsNaN(parseInt(rPr.sz)) THEN NaN
                           ELSE RoundDiv(parseInt(rPr.sz), 100))
                     ELSE @,
        !.fontWeight = IF rPr.b = "1" THEN "bold" ELSE @,
        !.fontStyle = IF rPr.i = "1" THEN "italic" ELSE @,
        !.color = IF rPr.srgb # "" THEN rPr.srgb ELSE @,
        !.fontFamily = IF rPr.typeface # "" THEN rPr.typeface ELSE @]

\* one iteration of the loop over the runs of a paragraph; acc = [text, style]
RunStep(run, acc) ==
    IF run.t # <<>>
    THEN LET text == acc.text \o run.t
         IN  [text |-> text,
              style |-> IF Len(text) = Len(run.t) /\ run.rPr.has
                        THEN ApplyRunProperties(run.rPr, acc.style)
                        ELSE acc.style]
    ELSE acc

RECURSIVE RunsLoop(_, _, _)
RunsLoop(runs, r, acc) ==
    IF r > Len(runs) THEN acc
    ELSE RunsLoop(runs, r + 1, RunStep(runs[r], acc))

\* Mutant of ApplyAlignment: the code l sets the alignment back to left.
ApplyAlignmentLeftToo(algn, st) ==
    [st EXCEPT !.textAlign = IF algn = "r" THEN "right"
                             ELSE IF algn = "ctr" THEN "center"
                             ELSE IF algn = "l" THEN "left"
                             ELSE @]

\* the alignment code of a paragraph's pPr
ApplyAlignment(algn, st) ==
    [st EXCEPT !.textAlign = IF algn = "r" THEN "right"
                             ELSE IF algn = "ctr" THEN "center"
                             ELSE @]

\* Mutant of ParagraphBreak: a newline after every paragraph, the last too.
ParagraphBreakAlways(p, n) == <<"\n">>

\* if (p < paragraphs.length - 1) fullText += "\n"   (p is 1-based here)
ParagraphBreak(p, n) == IF p < n THEN <<"\n">> ELSE <<>>

RECURSIVE ParagraphsLoop(_, _, _)
ParagraphsLoop(paras, p, acc) ==
    IF p > Len(paras) THEN acc
    ELSE LET aligned == [acc EXCEPT
                            !.style = ApplyAlignment(paras[p].algn, acc.style)]
             after == RunsLoop(paras[p].runs, 1, aligned)
         IN  ParagraphsLoop(paras, p + 1,
                [after EXCEPT !.text = @ \o ParagraphBreak(p, Len(paras))])

\* fullText and the captured style of a txBody
ExtractText(paras) ==
    ParagraphsLoop(paras, 1, [text |-> <<>>, style |-> DefaultStyle])

----------------------------------------------------------------------------
(* 4. Shapes *)

NoTxBody == [has |-> FALSE, paras |-> <<>>]
NoPic == [blipFill |-> FALSE, blip |-> FALSE, rEmbed |-> "", embed |-> ""]

\* Mutant of EmbedId: the attribute embed is looked at first.
EmbedIdSecondFirst(pic) ==
    IF ~pic.blip THEN ""
    ELSE IF pic.embed # "" THEN pic.embed
    ELSE pic.rEmbed

\* blip?.getAttribute("r:embed") || blip?.getAttribute("embed")
EmbedId(pic) ==
    IF ~pic.blip THEN ""
    ELSE IF pic.rEmbed # "" THEN pic.rEmbed
    ELSE pic.embed

\* reader.result for the blob of an archive entry
DataUrl(path) == <<"data:">> \o path

\* Mutant of TooSmall: drops a shape only when both sides are too small.
TooSmallBoth(w, h) == JsLess(w, MIN_VISIBLE_PX) /\ JsLess(h, MIN_VISIBLE_PX)

\* w < 5 || h < 5
TooSmall(w, h) == JsLess(w, MIN_VISIBLE_PX) \/ JsLess(h, MIN_VISIBLE_PX)

\* the element a picture shape yields: <<el>>, or <<>> when it is skipped
DecodePic(shape, index, x, y, w, h, rels, file, stamp) ==
    LET embedId == EmbedId(shape.pic)
    IN  IF /\ shape.pic.blipFill
           /\ embedId # ""
           /\ embedId \in DOMAIN rels
           /\ rels[embedId] \in file.media
           /\ rels[embedId] \notin file.badBlobs
        THEN << [id |-> <<"img", stamp, index>>, type |-> "image",
                 content |-> DataUrl(rels[embedId]),
                 x |-> x, y |-> y, w |-> w, h |-> h,
                 zIndex |-> index + 1, style |-> NoStyle, widgetId |-> ""] >>
        ELSE <<>>

\* the element a text shape yields: <<el>>, or <<>> when it is skipped
DecodeText(shape, index, x, y, w, h, stamp) ==
    IF ~shape.txBody.has THEN <<>>
    ELSE LET ex == ExtractText(shape.txBody.paras)
         IN  IF TrimIsNonEmpty(ex.text)
             THEN << [id |-> <<"text", stamp, index>>, type |-> "text",
                      content |-> ex.text,
                      x |-> JsMax(0, x), y |-> JsMax(0, y),
                      w |-> JsMax(MIN_TEXT_W, w), h |-> JsMax(MIN_TEXT_H, h),
                      zIndex |-> index + 1, style |-> ex.style,
                      widgetId |-> ""] >>
             ELSE <<>>

\* one iteration of the loop over the shapes of a slide (index is 0-based)
DecodeShape(shape, index, rels, file, widthEmu, stamp) ==
    IF ~shape.xfrm \/ ~shape.off.has \/ ~shape.ext.has THEN <<>>
    ELSE LET x == emuToPx(parseIntOr0(shape.off.x), widthEmu)
             y == emuToPx(parseIntOr0(shape.off.y), widthEmu)
             w == emuToPx(parseIntOr0(shape.ext.cx), widthEmu)
             h == emuToPx(parseIntOr0(shape.ext.cy), widthEmu)
         IN  IF TooSmall(w, h) THEN <<>>
             ELSE IF shape.localName = "pic"
                  THEN DecodePic(shape, index, x, y, w, h, rels, file, stamp)
             ELSE IF shape.localName = "sp"
                  THEN DecodeText(shape, index, x, y, w, h, stamp)
             ELSE <<>>

RECURSIVE DecodeShapes(_, _, _, _, _, _)
DecodeShapes(shapes, i, rels, file, widthEmu, stamp) ==
    IF i > Len(shapes) THEN <<>>
    ELSE DecodeShape(shapes[i], i - 1, rels, file, widthEmu, stamp)
         \o DecodeShapes(shapes, i + 1, rels, file, widthEmu, stamp)

\* the slide pushed onto newSlides for one slide file
DecodeSlideFile(f, file, widthEmu, stamp) ==
    [id |-> <<"imported-slide", stamp, f.digits>>,
     background |-> "",
     elements |-> DecodeShapes(f.shapes, 1, SlideRelsMap(f.rels), file,
                               widthEmu, stamp)]

\* The shape is a picture whose blob was handed to a FileReader that ends
\* with an error event: the promise around it has no reject path and only
\* onload resolves it, so the await never returns.
ReaderStalls(shape, rels, file, widthEmu) ==
    /\ shape.xfrm /\ shape.off.has /\ shape.ext.has
    /\ ~TooSmall(emuToPx(parseIntOr0(shape.ext.cx), widthEmu),
                 emuToPx(parseIntOr0(shape.ext.cy), widthEmu))
    /\ shape.localName = "pic"
    /\ shape.pic.blipFill
    /\ EmbedId(shape.pic) # ""
    /\ EmbedId(shape.pic) \in DOMAIN rels
    /\ rels[EmbedId(shape.pic)] \in file.media
    /\ rels[EmbedId(shape.pic)] \notin file.badBlobs
    /\ rels[EmbedId(shape.pic)] \in file.deadBlobs

\* some shape of the slide file stalls the loop
SlideStalls(f, file, widthEmu) ==
    \E i \in 1..Len(f.shapes) :
        ReaderStalls(f.shapes[i], SlideRelsMap(f.rels), file, widthEmu)

----------------------------------------------------------------------------
(* Bounds of the model *)

MaxClock == 4          \* user events and Date.now() readings per behaviour
MaxSlideFiles == 3     \* entries of an archive
MaxShapes == 2         \* shapes of a slide
MaxParas == 2          \* paragraphs of a text body
MaxRuns == 2           \* runs of a paragraph
MaxRels == 2           \* relationships of a slide
MaxWidgets == 2        \* widgets of the dashboard
MaxFilters == 2        \* filters of the dashboard

----------------------------------------------------------------------------
(* The editor: initial state *)

AllLibs == {"JSZip", "PptxGenJS", "html2canvas"}

BlankSlide(id) == [id |-> id, background |-> "", elements |-> <<>>]

\* useState(project.reportConfig || [{ id: 'slide-1', elements: [] }])
InitialSlides(reportConfig) ==
    IF reportConfig = <<>> THEN <<BlankSlide(<<"slide", 0>>)>> ELSE reportConfig

NoLocals ==
    /\ archive = NoFile
    /\ upSlides = <<>>
    /\ pptWidthEmu = DEFAULT_PPT_WIDTH_EMU
    /\ slideFiles = <<>>
    /\ fileIdx = 0
    /\ newSlides = <<>>
    /\ relsMap = EmptyRelsMap

----------------------------------------------------------------------------
(* The AI agent view: the grid and its initial state *)

MaxRows == 2           \* rows of the project's data and of an uploaded file

\* the keys a row can have: two columns of the data and one the user creates
\* in the target dialog
DataKeys == <<"text", "tag">>
NewKey == "ai"
RowKeys == {"text", "tag", "ai"}

Undefined == "undefined"     \* the value of a key the row does not have
NoCol == ""                  \* targetCol = null
NoFilter == {"null"}         \* filters[col] null or absent
NoSelection == [startRow |-> -1, startCol |-> NoCol, endRow |-> -1, endCol |-> NoCol]

RawRow(text, tag) == [text |-> text, tag |-> tag, ai |-> Undefined]

\* project.data: rows whose tag alternates, so that a filter hides some
ProjectData ==
    [i \in 1..MaxRows |-> RawRow("p", IF i % 2 = 1 THEN "x" ELSE "y")]

\* project.columns.map(c => c.key)
ProjectColumns == DataKeys

\* the files a user uploads: no row, one row, as many rows as the project
UploadedFiles ==
    {<<>>, <<RawRow("u", "x")>>, [i \in 1..MaxRows |-> RawRow("u", "y")]}

NoFilters == [c \in RowKeys |-> NoFilter]

\* val === null || val === undefined ? '(Blank)' : String(val)
StrVal(val) == IF val = Undefined THEN "(Blank)" ELSE val

\* gridData.map((row, idx) => ({ ...row, _originalIndex: idx })).filter(...)
displayData(grid, fl) ==
    SelectSeq([i \in 1..Len(grid) |-> [row |-> grid[i], _originalIndex |-> i - 1]],
              LAMBDA r : \A key \in RowKeys :
                  fl[key] = NoFilter \/ StrVal(r.row[key]) \in fl[key])

\* the effect of mounting the view with sourceMode 'project'
LoadProject ==
    /\ gridData' = ProjectData
    /\ columns' = ProjectColumns
    /\ filters' = NoFilters
    /\ selection' = NoSelection

\* an executeAction that is not running has captured nothing
NoClosure ==
    [gridData |-> <<>>, columns |-> <<>>, displayData |-> <<>>,
     selection |-> NoSelection, targetCol |-> NoCol, sourceData |-> 0]

InitAgent ==
    /\ sourceMode = "project"
    /\ gridData = ProjectData
    /\ columns = ProjectColumns
    /\ filters = NoFilters
    /\ selection = NoSelection
    /\ targetCol = NoCol
    /\ pendingActionPrompt = FALSE
    /\ showTargetModal = FALSE
    /\ isProcessing = FALSE
    /\ isUploading = FALSE
    /\ aiPc = "idle"
    /\ aiClosure = NoClosure
    /\ fuPc = "idle"
    /\ fuFile = <<>>

\* the state of a freshly mounted editor at time t
InitAt(reportConfig, libSet, t) ==
    /\ slides = InitialSlides(reportConfig)
    /\ activeSlideIdx = 0
    /\ selectedElementId = NoId
    /\ isProcessingPptx = FALSE
    /\ isExporting = FALSE
    /\ projectLog = <<>>
    /\ alerts = <<>>
    /\ now = t
    /\ upPc = "idle"
    /\ NoLocals
    /\ exPc = "idle"
    /\ exSlides = <<>>
    /\ exSlideIdx = 0
    /\ exElIdx = 0
    /\ pptxOut = <<>>
    /\ pptxWritten = 0
    /\ rasterFails = FALSE
    /\ libs = libSet
    /\ anExporting = FALSE
    /\ dashPc = "idle"
    /\ dashFilters = <<>>
    /\ dashWidgets = <<>>
    /\ dashIdx = 0
    /\ dashOut = <<>>
    /\ dashWritten = 0
    /\ InitAgent

InitWith(reportConfig, libSet) == InitAt(reportConfig, libSet, 1)

----------------------------------------------------------------------------
(* handlePptxUpload *)

\* Mutant of UploadFails: the failure path without the finally block.
UploadFailsKeepsFlag ==
    /\ alerts' = Append(alerts, "Failed to parse PPTX")
    /\ isProcessingPptx' = isProcessingPptx
    /\ upPc' = "idle"

\* catch (err) { alert(...) } finally { setIsProcessingPptx(false) }
UploadFails ==
    /\ alerts' = Append(alerts, "Failed to parse PPTX")
    /\ isProcessingPptx' = FALSE
    /\ upPc' = "idle"

\* The change event of the file input, up to the first await.
StartUpload(files) ==
    /\ ~isProcessingPptx
    /\ upPc = "idle"
    /\ now < MaxClock
    /\ now' = now + 1
    /\ \E file \in files :
        IF ~file.pptxName
        THEN /\ alerts' = Append(alerts, "Please upload a valid .pptx file.")
             /\ UNCHANGED <<isProcessingPptx, uploadVars>>
        ELSE IF "JSZip" \notin libs
        THEN /\ UploadFails
             /\ UNCHANGED <<archive, upSlides, pptWidthEmu, slideFiles, fileIdx,
                            newSlides, relsMap>>
        ELSE /\ isProcessingPptx' = TRUE
             /\ upPc' = "loading"
             /\ archive' = file
             /\ upSlides' = slides
             /\ pptWidthEmu' = DEFAULT_PPT_WIDTH_EMU
             /\ slideFiles' = <<>>
             /\ fileIdx' = 0
             /\ newSlides' = <<>>
             /\ relsMap' = EmptyRelsMap
             /\ UNCHANGED alerts
    /\ UNCHANGED <<slides, activeSlideIdx, selectedElementId, isExporting,
                   projectLog, exportVars, libs, dashVars, agentVars>>

\* Mutant of SlideWidthEmu: takes cx whatever its sign.
SlideWidthEmuUnchecked(pres) ==
    IF pres.k = "sldSz" /\ ~IsNaN(parseIntOr0(pres.cx))
    THEN parseIntOr0(pres.cx)
    ELSE DEFAULT_PPT_WIDTH_EMU

\* 0. Determine slide size from presentation.xml
SlideWidthEmu(pres) ==
    IF pres.k = "sldSz" /\ JsLess(0, parseIntOr0(pres.cx))
    THEN parseIntOr0(pres.cx)
    ELSE DEFAULT_PPT_WIDTH_EMU

\* zip.loadAsync settles; on success the slide size is read and the slide
\* files are listed and sorted.
OpenArchive ==
    /\ upPc = "loading"
    /\ IF ~archive.openable
       THEN /\ UploadFails
            /\ UNCHANGED <<pptWidthEmu, slideFiles>>
       ELSE /\ pptWidthEmu' = SlideWidthEmu(archive.presentation)
            /\ slideFiles' = SortSlideFiles(FilterSlideFiles(archive.files))
            /\ upPc' = "decoding"
            /\ UNCHANGED <<alerts, isProcessingPptx>>
    /\ UNCHANGED <<slides, activeSlideIdx, selectedElementId, isExporting,
                   projectLog, now, archive, upSlides, fileIdx, newSlides,
                   relsMap, exportVars, libs, dashVars, agentVars>>

\* Mutant of PushSlide: a slide without elements is not kept.
PushSlideIfAny(decoded, slide) ==
    IF slide.elements = <<>> THEN decoded ELSE Append(decoded, slide)

\* newSlides.push({ id, elements }), whatever the elements
PushSlide(decoded, slide) == Append(decoded, slide)

\* One iteration of `for (const slideFile of slideFiles)`.
DecodeSlide ==
    /\ upPc = "decoding"
    /\ fileIdx < Len(slideFiles)
    /\ LET f == slideFiles[fileIdx + 1]
       IN  IF f.read = "throws" \/ (f.read = "ok" /\ f.rels.read = "throws")
           THEN /\ UploadFails
                /\ UNCHANGED <<fileIdx, newSlides, relsMap, now>>
           ELSE IF f.read = "empty"
           THEN /\ fileIdx' = fileIdx + 1
                /\ UNCHANGED <<alerts, isProcessingPptx, upPc, newSlides,
                               relsMap, now>>
           ELSE IF SlideStalls(f, archive, pptWidthEmu)
           THEN /\ upPc' = "reading"
                /\ relsMap' = SlideRelsMap(f.rels)
                /\ UNCHANGED <<alerts, isProcessingPptx, fileIdx, newSlides, now>>
           ELSE /\ fileIdx' = fileIdx + 1
                /\ relsMap' = SlideRelsMap(f.rels)
                /\ newSlides' = PushSlide(newSlides,
                                   DecodeSlideFile(f, archive, pptWidthEmu, now))
                /\ now' = now + 1
                /\ UNCHANGED <<alerts, isProcessingPptx, upPc>>
    /\ UNCHANGED <<slides, activeSlideIdx, selectedElementId, isExporting,
                   projectLog, archive, upSlides, pptWidthEmu, slideFiles,
                   exportVars, libs, dashVars, agentVars>>

\* the guard of the commit: !(newSlides.length > 0)
ImportIsEmpty(decoded) == Len(decoded) = 0

\* The end of the loop: commit or notice, then the finally block.  It runs in
\* the same task as the last iteration; it is a step of its own here because
\* the loop touches no state that another handler reads.
FinishUpload ==
    /\ upPc = "decoding"
    /\ fileIdx = Len(slideFiles)
    /\ IF ~ImportIsEmpty(newSlides)
       THEN /\ slides' = slides \o newSlides
            /\ activeSlideIdx' = Len(upSlides)
            /\ projectLog' = Append(projectLog, upSlides \o newSlides)
            /\ UNCHANGED alerts
       ELSE /\ alerts' = Append(alerts, "No recognizable text or images found.")
            /\ UNCHANGED <<slides, activeSlideIdx, projectLog>>
    /\ isProcessingPptx' = FALSE
    /\ upPc' = "idle"
    /\ UNCHANGED <<selectedElementId, isExporting, now, archive, upSlides,
                   pptWidthEmu, slideFiles, fileIdx, newSlides, relsMap,
                   exportVars, libs, dashVars, agentVars>>

----------------------------------------------------------------------------
(* Archives: how the inputs of the import are built *)

SeqsUpTo(S, n) == UNION {[1..k -> S] : k \in 0..n}

DistinctNames(fs) ==
    \A i, j \in 1..Len(fs) :
        i # j => <<fs[i].prefix, fs[i].digits>> # <<fs[j].prefix, fs[j].digits>>

Off(x, y) == [has |-> TRUE, x |-> x, y |-> y]
Ext(cx, cy) == [has |-> TRUE, cx |-> cx, cy |-> cy]
NoGeom == [has |-> FALSE]

Run(t) == [t |-> t, rPr |-> NoRPr]
RunWith(t, rPr) == [t |-> t, rPr |-> rPr]

Para(runs) == [algn |-> "", runs |-> runs]

TextShape(off, ext, paras) ==
    [localName |-> "sp", xfrm |-> TRUE, off |-> off, ext |-> ext,
     pic |-> NoPic, txBody |-> [has |-> TRUE, paras |-> paras]]

PicShape(off, ext, rEmbed, embed) ==
    [localName |-> "pic", xfrm |-> TRUE, off |-> off, ext |-> ext,
     pic |-> [blipFill |-> TRUE, blip |-> TRUE, rEmbed |-> rEmbed,
              embed |-> embed],
     txBody |-> NoTxBody]

Rel(id, target) == [id |-> id, target |-> target]
NoRels == [read |-> "absent", list |-> <<>>]
Rels(list) == [read |-> "ok", list |-> list]

ImagePath == <<"ppt/", "media/", "image1.png">>
ImageRels == Rels(<<Rel("rId1", <<"../", "media/", "image1.png">>)>>)

SlideEntry(digits, rels, shapes) ==
    [prefix |-> "ppt/slides/slide", digits |-> digits, suffix |-> ".xml",
     read |-> "ok", rels |-> rels, shapes |-> shapes]

\* an entry that is not a slide file
LayoutEntry ==
    [prefix |-> "ppt/slideLayouts/slideLayout", digits |-> <<1>>,
     suffix |-> ".xml", read |-> "ok", rels |-> NoRels, shapes |-> <<>>]

PresCx(cx) == [k |-> "sldSz", cx |-> cx]
PresOther(k) == [k |-> k, cx |-> AbsentAttr]

Pptx(pres, files) ==
    [pptxName |-> TRUE, openable |-> TRUE, presentation |-> pres,
     files |-> files, media |-> {ImagePath}, badBlobs |-> {},
     deadBlobs |-> {}]

\* px -> EMU for the default 10-inch page (9144000 / 960 = 9525 EMU per px)
Emu(px) == IntAttr(px * 9525)

PlainText == <<Para(<<Run(<<"A">>)>>)>>
PlainTextShape == TextShape(Off(Emu(10), Emu(10)), Ext(Emu(100), Emu(40)), PlainText)

----------------------------------------------------------------------------
(* Archives: the families the import is checked on *)

\* slide files named in an order that differs from their numeric order, with
\* and without shapes, next to entries that are not slides or cannot be read
SlideNames == {<<1>>, <<2>>, <<1, 0>>, <<1, 1>>}

OrderEntries ==
    {SlideEntry(d, NoRels, <<PlainTextShape>>) : d \in SlideNames}
    \cup {SlideEntry(<<1>>, NoRels, <<>>), LayoutEntry}
    \cup {[SlideEntry(<<3>>, NoRels, <<PlainTextShape>>) EXCEPT !.read = r] :
            r \in {"empty", "throws"}}

OrderFiles ==
    {Pptx(PresOther("absent"), fs) :
        fs \in {s \in SeqsUpTo(OrderEntries, MaxSlideFiles) : DistinctNames(s)}}

\* one slide whose shapes have sizes around the 5 px threshold
\* (42862 EMU -> 4.4999 px on the default page)
SizeAttrs ==
    {<<IntAttr(42862), Emu(60)>>, <<Emu(60), IntAttr(42862)>>,
     <<IntAttr(42862), IntAttr(42862)>>, <<Emu(5), Emu(5)>>,
     <<Emu(60), Emu(60)>>, <<TextAttr, Emu(60)>>}

GeomShapes ==
    {TextShape(Off(Emu(10), Emu(20)), Ext(s[1], s[2]), PlainText) : s \in SizeAttrs}
    \cup {PicShape(Off(Emu(30), Emu(5)), Ext(s[1], s[2]), "rId1", "") : s \in SizeAttrs}
    \cup {[PlainTextShape EXCEPT !.xfrm = FALSE],
          [PlainTextShape EXCEPT !.off = NoGeom],
          [PlainTextShape EXCEPT !.ext = NoGeom]}

GeomFiles ==
    {Pptx(PresOther("absent"), <<SlideEntry(<<1>>, ImageRels, shapes)>>) :
        shapes \in SeqsUpTo(GeomShapes, MaxShapes)}

\* one text shape with every arrangement of paragraphs and runs
RunSet == {Run(<<"A">>), Run(<<"B">>)}
ParaSet ==
    {Para(rs) : rs \in SeqsUpTo(RunSet, MaxRuns)}
    \cup {Para(<<Run(<<>>)>>), Para(<<Run(<<" ">>)>>)}

TextFiles ==
    {Pptx(PresOther("absent"),
          <<SlideEntry(<<1>>, NoRels,
               <<TextShape(Off(Emu(10), Emu(20)), Ext(Emu(200), Emu(80)), paras)>>)>>) :
        paras \in SeqsUpTo(ParaSet, MaxParas)}

\* one text shape whose runs do or do not carry run properties, in the
\* first paragraph or after an empty or a plain paragraph
BoldRPr == [has |-> TRUE, sz |-> IntAttr(2400), b |-> "1", i |-> "",
            srgb |-> "FF0000", typeface |-> "Calibri"]
ItalicRPr == [has |-> TRUE, sz |-> AbsentAttr, b |-> "", i |-> "1",
              srgb |-> "", typeface |-> ""]

StyleRuns == {Run(<<"A">>), RunWith(<<"B">>, BoldRPr), RunWith(<<"C">>, ItalicRPr)}

StyleFiles ==
    {Pptx(PresOther("absent"),
          <<SlideEntry(<<1>>, NoRels,
               <<TextShape(Off(Emu(10), Emu(20)), Ext(Emu(200), Emu(80)),
                           before \o <<Para(rs)>>)>>)>>) :
        before \in {<<>>, <<Para(<<>>)>>, <<Para(<<Run(<<"A">>)>>)>>},
        rs \in SeqsUpTo(StyleRuns, MaxRuns)}

\* one picture whose relationship file holds every arrangement of ids and
\* targets
TargetSet ==
    {<<>>,
     <<"../", "media/", "image1.png">>,
     <<"ppt/", "media/", "image1.png">>,
     <<"media/", "../", "image1.png">>,
     <<"../", "../", "image1.png">>}

RelSet == {Rel(id, t) : id \in {"", "rId1", "rId2"}, t \in TargetSet}

PlainPicShape(rEmbed, embed) ==
    PicShape(Off(Emu(30), Emu(5)), Ext(Emu(120), Emu(90)), rEmbed, embed)

RelsFiles ==
    {Pptx(PresOther("absent"),
          <<SlideEntry(<<1>>, rels, <<PlainPicShape("rId1", "")>>)>>) :
        rels \in {Rels(l) : l \in SeqsUpTo(RelSet, MaxRels)}
                 \cup {NoRels, [read |-> "throws", list |-> <<>>]}}

\* every form of presentation.xml, with a picture at offsets of 0, 1 EMU,
\* one inch and minus one inch
CxAttrs ==
    {AbsentAttr, EmptyAttr, TextAttr, IntAttr(0), IntAttr(-9144000),
     IntAttr(9144000), IntAttr(12192000), IntAttr(960), IntAttr(1920),
     PrefixAttr(6858000)}

Presentations ==
    {PresCx(cx) : cx \in CxAttrs}
    \cup {PresOther(k) : k \in {"absent", "throws", "noSldSz"}}

OffsetAttrs == {AbsentAttr, IntAttr(0), IntAttr(1), IntAttr(914400), IntAttr(-914400)}

PresFiles ==
    {Pptx(pres, <<SlideEntry(<<1>>, ImageRels,
                    <<PicShape(Off(x, IntAttr(0)), Ext(IntAttr(1000000), IntAttr(1000000)),
                               "rId1", "")>>)>>) :
        pres \in Presentations, x \in OffsetAttrs}

\* a picture followed by a text shape, where the read of the picture's blob
\* is rejected by the archive or ends with an error event of the FileReader
BlobFiles ==
    {[Pptx(PresOther("absent"),
           <<SlideEntry(<<1>>, ImageRels,
                <<PlainPicShape("rId1", ""), PlainTextShape>>)>>)
        EXCEPT !.badBlobs = b[1], !.deadBlobs = b[2]] :
        b \in {<<{ImagePath}, {}>>, <<{}, {ImagePath}>>}}

\* two slides, the first with a picture and a text shape, where a resource
\* of the picture is missing: the relationships entry, the relationship id,
\* the target entry, or the blob's content (none is missing in the first)
GonePath == <<"../", "media/", "gone.png">>

AbsentCases ==
    {[rels |-> ImageRels, id |-> "rId1", bad |-> {}, dead |-> {}],
     [rels |-> NoRels, id |-> "rId1", bad |-> {}, dead |-> {}],
     [rels |-> ImageRels, id |-> "rId9", bad |-> {}, dead |-> {}],
     [rels |-> Rels(<<Rel("rId1", GonePath)>>), id |-> "rId1",
      bad |-> {}, dead |-> {}],
     [rels |-> ImageRels, id |-> "rId1", bad |-> {ImagePath}, dead |-> {}],
     [rels |-> ImageRels, id |-> "rId1", bad |-> {}, dead |-> {ImagePath}]}

AbsentFiles ==
    {[Pptx(PresOther("absent"),
           <<SlideEntry(<<1>>, c.rels,
                <<PlainPicShape(c.id, ""), PlainTextShape>>),
             SlideEntry(<<2>>, NoRels, <<PlainTextShape>>)>>)
        EXCEPT !.badBlobs = c.bad, !.deadBlobs = c.dead] : c \in AbsentCases}

\* one slide with one shape: a p:sp with or without a picture fill (a:blipFill
\* in its spPr) and with or without a text body, or a p:pic
KindShapes ==
    {[localName |-> "sp", xfrm |-> TRUE,
      off |-> Off(Emu(30), Emu(5)), ext |-> Ext(Emu(120), Emu(90)),
      pic |-> pic, txBody |-> body] :
        pic \in {NoPic, PlainPicShape("rId1", "").pic},
        body \in {NoTxBody, [has |-> TRUE, paras |-> PlainText]}}
    \cup {PlainPicShape("rId1", "")}

KindFiles ==
    {Pptx(PresOther("absent"), <<SlideEntry(<<1>>, ImageRels, <<sh>>)>>) :
        sh \in KindShapes}

\* one picture whose blip carries either, both or none of the attributes
\* r:embed and embed, naming the first image, the second or none
Image2Path == <<"ppt/", "media/", "image2.png">>
TwoImageRels ==
    Rels(<<Rel("rId1", <<"../", "media/", "image1.png">>),
           Rel("rId2", <<"../", "media/", "image2.png">>)>>)
EmbedIds == {"", "rId1", "rId2", "rId9"}

EmbedFiles ==
    {[Pptx(PresOther("absent"),
           <<SlideEntry(<<1>>, TwoImageRels, <<PlainPicShape(r, e)>>)>>)
        EXCEPT !.media = {ImagePath, Image2Path}] :
        r \in EmbedIds, e \in EmbedIds}

\* one text shape whose paragraphs carry the alignment codes ctr, r, l, a
\* code the decoder does not know, or none
AlgnCodes == {"", "l", "ctr", "r", "just"}

AlignFiles ==
    {Pptx(PresOther("absent"),
          <<SlideEntry(<<1>>, NoRels,
               <<TextShape(Off(Emu(10), Emu(20)), Ext(Emu(200), Emu(80)),
                           [p \in 1..Len(codes) |->
                               [Para(<<Run(<<"A">>)>>) EXCEPT !.algn = codes[p]]])>>)>>) :
        codes \in SeqsUpTo(AlgnCodes, MaxParas) \ {<<>>}}

\* files that never reach the decoder
BadFiles ==
    {[Pptx(PresOther("absent"), <<>>) EXCEPT !.pptxName = FALSE],
     [Pptx(PresOther("absent"), <<>>) EXCEPT !.openable = FALSE]}

ImportFiles ==
    OrderFiles \cup GeomFiles \cup TextFiles \cup StyleFiles \cup RelsFiles
    \cup PresFiles \cup BlobFiles \cup AbsentFiles \cup KindFiles
    \cup EmbedFiles \cup AlignFiles \cup BadFiles

----------------------------------------------------------------------------
(* Specification of one import into a freshly opened editor *)

SavedText ==
    [id |-> <<"text", 0>>, type |-> "text", content |-> <<"S">>,
     x |-> 100, y |-> 100, w |-> 300, h |-> 50, zIndex |-> 1,
     style |-> DefaultStyle, widgetId |-> ""]

\* project.reportConfig when the editor opens: none, or a saved report
InitialConfigs ==
    {<<>>,
     <<[id |-> <<"slide", 0>>, background |-> "", elements |-> <<SavedText>>],
       BlankSlide(<<"slide", -1>>)>>}

InitImport ==
    \E rc \in InitialConfigs, ls \in {AllLibs, AllLibs \ {"JSZip"}} :
        InitWith(rc, ls)

\* the first event of the session is the choice of a file
StartFirstUpload == now = 1 /\ StartUpload(ImportFiles)

NextImport ==
    \/ StartFirstUpload
    \/ OpenArchive
    \/ DecodeSlide
    \/ FinishUpload

SpecImport == InitImport /\ [][NextImport]_vars

\* The imports whose outcome depends on what the reads of the archive do:
\* entries that are absent, empty or unreadable, and picture blobs.
ReadFiles ==
    BlobFiles \cup AbsentFiles \cup BadFiles
    \cup {f \in OrderFiles : Len(f.files) <= 2}

StartReadUpload == now = 1 /\ StartUpload(ReadFiles)

NextReads ==
    \/ StartReadUpload
    \/ OpenArchive
    \/ DecodeSlide
    \/ FinishUpload

\* Every promise the handler awaits on JSZip settles, and the continuation of
\* a settled promise runs.
SpecReads ==
    /\ InitImport
    /\ [][NextReads]_vars
    /\ WF_vars(OpenArchive)
    /\ WF_vars(DecodeSlide)
    /\ WF_vars(FinishUpload)

----------------------------------------------------------------------------
(* Claims about the import *)

IsImported(slide) == Len(slide.id) = 3 /\ slide.id[1] = "imported-slide"

\* the integer suffix of the entry an imported slide was decoded from
SuffixOf(slide) == DigitsValue(slide.id[3])

\* the slide file an imported slide was decoded from
SourceOf(slide) ==
    CHOOSE f \in {slideFiles[i] : i \in 1..Len(slideFiles)} :
        f.digits = slide.id[3]

\* the import ran to its end (no exception) and is over
UploadCompleted ==
    /\ upPc = "idle"
    /\ archive.openable
    /\ archive.pptxName
    /\ fileIdx = Len(slideFiles)
    /\ slideFiles = SortSlideFiles(FilterSlideFiles(archive.files))

\* C1: the imported slides are decoded, and appended to the editor's slides,
\* in ascending order of the integer suffix of their entry names.
C1_NumericSlideOrder ==
    /\ \A i, j \in 1..Len(newSlides) :
          i < j => SuffixOf(newSlides[i]) <= SuffixOf(newSlides[j])
    /\ \A i, j \in 1..Len(slides) :
          (i < j /\ IsImported(slides[i]) /\ IsImported(slides[j]))
              => SuffixOf(slides[i]) <= SuffixOf(slides[j])
    /\ (UploadCompleted /\ newSlides # <<>>) => slides = upSlides \o newSlides

\* C1 witness: slide10.xml stored before slide2.xml, imported as 2 then 10.
C1_Witness ==
    /\ UploadCompleted
    /\ \E i, j \in 1..Len(archive.files) :
          i < j /\ archive.files[i].digits = <<1, 0>> /\ archive.files[j].digits = <<2>>
    /\ \E i \in 1..Len(slides) - 1 :
          /\ IsImported(slides[i]) /\ slides[i].id[3] = <<2>>
          /\ IsImported(slides[i + 1]) /\ slides[i + 1].id[3] = <<1, 0>>

\* C2: an import in which no slide yields any element shows the empty-result
\* notice and commits nothing (no slide appended, project not updated).
C2_EmptyImportCommitsNothing ==
    (UploadCompleted /\ \A k \in 1..Len(newSlides) : newSlides[k].elements = <<>>)
        => /\ slides = upSlides
           /\ projectLog = <<>>
           /\ alerts = <<"No recognizable text or images found.">>

\* converted size of a shape, as the decoder computes it
ConvertedW(sh) == emuToPx(parseIntOr0(sh.ext.cx), pptWidthEmu)
ConvertedH(sh) == emuToPx(parseIntOr0(sh.ext.cy), pptWidthEmu)

HasGeometry(sh) == sh.xfrm /\ sh.off.has /\ sh.ext.has

\* the shape carries text or a loadable picture
HasValidContent(sh, f) ==
    \/ /\ sh.localName = "sp"
       /\ sh.txBody.has
       /\ \E p \in 1..Len(sh.txBody.paras) :
            \E r \in 1..Len(sh.txBody.paras[p].runs) :
                TrimIsNonEmpty(sh.txBody.paras[p].runs[r].t)
    \/ /\ sh.localName = "pic"
       /\ sh.pic.blipFill /\ sh.pic.blip /\ sh.pic.rEmbed # ""
       /\ \E r \in 1..Len(f.rels.list) :
            /\ f.rels.list[r].id = sh.pic.rEmbed
            /\ f.rels.list[r].target = <<"../", "media/", "image1.png">>
       /\ \A r \in 1..Len(f.rels.list) :
            f.rels.list[r].id = sh.pic.rEmbed
                => f.rels.list[r].target = <<"../", "media/", "image1.png">>
       /\ ImagePath \in archive.media \ archive.badBlobs

\* the element decoded from the shape at position i (1-based) of a slide
ElementsOfShape(slide, i) ==
    {k \in 1..Len(slide.elements) : slide.elements[k].zIndex = i}

\* C3: a shape whose converted width or height is below 5 px yields no
\* element; a shape of 5 x 5 px with valid content yields one.
C3_MinVisibleThreshold ==
    \A k \in 1..Len(newSlides) :
        LET f == SourceOf(newSlides[k])
        IN  \A i \in 1..Len(f.shapes) :
                HasGeometry(f.shapes[i]) =>
                    LET w == ConvertedW(f.shapes[i])
                        h == ConvertedH(f.shapes[i])
                    IN  /\ (JsLess(w, 5) \/ JsLess(h, 5))
                            => ElementsOfShape(newSlides[k], i) = {}
                        /\ (w = 5 /\ h = 5 /\ HasValidContent(f.shapes[i], f))
                            => Cardinality(ElementsOfShape(newSlides[k], i)) = 1

\* C3 witness: one slide with a 4 x 60 px shape (dropped) and a 5 x 5 px
\* shape (kept).
C3_Witness ==
    /\ UploadCompleted
    /\ Len(newSlides) = 1
    /\ LET f == SourceOf(newSlides[1])
       IN  /\ Len(f.shapes) = 2
           /\ HasGeometry(f.shapes[1]) /\ HasGeometry(f.shapes[2])
           /\ ConvertedW(f.shapes[1]) = 4 /\ ConvertedH(f.shapes[1]) = 60
           /\ ConvertedW(f.shapes[2]) = 5 /\ ConvertedH(f.shapes[2]) = 5
           /\ ElementsOfShape(newSlides[1], 1) = {}
           /\ ElementsOfShape(newSlides[1], 2) # {}
           /\ ElementsOfShape(slides[Len(slides)], 2) # {}

----------------------------------------------------------------------------

\* the run texts of a paragraph, one after the other
RECURSIVE ConcatRuns(_)
ConcatRuns(runs) ==
    IF runs = <<>> THEN <<>> ELSE Head(runs).t \o ConcatRuns(Tail(runs))

\* the paragraphs' texts with one newline between consecutive paragraphs
RECURSIVE JoinParagraphs(_)
JoinParagraphs(paras) ==
    IF paras = <<>> THEN <<>>
    ELSE IF Len(paras) = 1 THEN ConcatRuns(paras[1].runs)
    ELSE ConcatRuns(paras[1].runs) \o <<"\n">> \o JoinParagraphs(Tail(paras))

CountNewlines(text) == Cardinality({i \in 1..Len(text) : text[i] = "\n"})

\* C4: the content of an imported text element is the run texts in document
\* order, with exactly one newline between consecutive paragraphs and none
\* between the runs of a paragraph.
C4_TextJoinedByParagraph ==
    \A k \in 1..Len(newSlides) :
        \A e \in 1..Len(newSlides[k].elements) :
            LET el == newSlides[k].elements[e]
                paras == SourceOf(newSlides[k]).shapes[el.zIndex].txBody.paras
            IN  el.type = "text" =>
                    /\ el.content = JoinParagraphs(paras)
                    /\ CountNewlines(el.content) = Len(paras) - 1

\* C4 witness: paragraphs "A" and "B" imported as "A\nB".
C4_Witness ==
    /\ UploadCompleted
    /\ \E k \in 1..Len(slides) :
        /\ IsImported(slides[k])
        /\ \E e \in 1..Len(slides[k].elements) :
            LET el == slides[k].elements[e]
                paras == SourceOf(slides[k]).shapes[el.zIndex].txBody.paras
            IN  /\ el.type = "text"
                /\ Len(paras) = 2
                /\ ConcatRuns(paras[1].runs) = <<"A">>
                /\ ConcatRuns(paras[2].runs) = <<"B">>
                /\ el.content = <<"A", "\n", "B">>

\* the slide file whose relationships the variable relsMap was built from
LastVisited == slideFiles[fileIdx]

RelsMapIsCurrent ==
    /\ upPc = "decoding"
    /\ fileIdx >= 1
    /\ LastVisited.read = "ok"
    /\ LastVisited.rels.read = "ok"

\* a target with its leading '../' rewritten to 'ppt/'
Normalized(target) ==
    IF target[1] = "../" THEN <<"ppt/">> \o Tail(target) ELSE target

\* C5: the relationship map holds Id -> normalized target for every
\* relationship with an Id and a Target (the last one, should an Id recur),
\* and nothing else.
C5_RelationshipMap ==
    RelsMapIsCurrent =>
        LET list == LastVisited.rels.list
            Usable == {i \in 1..Len(list) : list[i].id # "" /\ list[i].target # <<>>}
        IN  /\ DOMAIN relsMap = {list[i].id : i \in Usable}
            /\ \A i \in Usable :
                  (\A j \in Usable : j > i => list[j].id # list[i].id)
                      => relsMap[list[i].id] = Normalized(list[i].target)

\* C5 witness: '../media/image1.png' recorded as 'ppt/media/image1.png',
\* next to a target with '../' further in, recorded unchanged.
C5_Witness ==
    /\ RelsMapIsCurrent
    /\ LastVisited.rels.list =
          <<Rel("rId1", <<"../", "media/", "image1.png">>),
            Rel("rId2", <<"media/", "../", "image1.png">>)>>
    /\ relsMap["rId1"] = <<"ppt/", "media/", "image1.png">>
    /\ relsMap["rId2"] = <<"media/", "../", "image1.png">>

\* native values the conversion is probed on
ProbeEmu == {-914400, -4763, -1, 0, 1, 4762, 4763, 6350, 9525, 914400}

\* r is v * 960 / cx rounded to the nearest integer (halves up)
IsRounded(r, v, cx) ==
    LET d == 2 * (CANVAS_WIDTH * v - cx * r)
    IN  -cx <= d /\ d < cx

\* the pictures of the imported slides with the offset they were read from
ImportedPictures ==
    {<<k, e>> \in (1..Len(newSlides)) \X (1..MaxShapes + 1) :
        /\ e <= Len(newSlides[k].elements)
        /\ newSlides[k].elements[e].type = "image"}

\* C6: for the document width cx > 0 in use, emuToPx(v) is v * 960 / cx
\* rounded to the nearest integer; it maps 0 to 0, is monotonic, and maps
\* 914400 to 96 when cx = 9144000.  Imported pictures sit at the converted
\* offset of their shape.
C6_UnitConversion ==
    upPc = "decoding" =>
        /\ pptWidthEmu > 0
        /\ emuToPx(0, pptWidthEmu) = 0
        /\ \A v \in ProbeEmu : IsRounded(emuToPx(v, pptWidthEmu), v, pptWidthEmu)
        /\ \A v1, v2 \in ProbeEmu :
              v1 <= v2 => emuToPx(v1, pptWidthEmu) <= emuToPx(v2, pptWidthEmu)
        /\ pptWidthEmu = 9144000 => emuToPx(914400, pptWidthEmu) = 96
        /\ \A ke \in ImportedPictures :
              LET el == newSlides[ke[1]].elements[ke[2]]
                  sh == SourceOf(newSlides[ke[1]]).shapes[el.zIndex]
              IN  ~IsNaN(parseIntOr0(sh.off.x))
                      => IsRounded(el.x, parseIntOr0(sh.off.x), pptWidthEmu)

\* C6 witness: on the 9144000-wide page a picture at offset 914400 is
\* imported at x = 96.
C6_Witness ==
    /\ upPc = "decoding"
    /\ pptWidthEmu = 9144000
    /\ archive.presentation = PresCx(IntAttr(9144000))
    /\ \E ke \in ImportedPictures :
          LET el == newSlides[ke[1]].elements[ke[2]]
              sh == SourceOf(newSlides[ke[1]]).shapes[el.zIndex]
          IN  sh.off.x = IntAttr(914400) /\ el.x = 96

\* the archive has been opened and its slide size read
WidthIsRead == upPc = "decoding" \/ (upPc = "idle" /\ archive.openable)

----------------------------------------------------------------------------
(* Claims about failures of the import *)

\* the handler was given a file named *.pptx that JSZip could not open, and
\* has returned
OpenFailed == archive # NoFile /\ archive.pptxName /\ ~archive.openable /\ upPc = "idle"

\* C13: when the container cannot be opened, nothing is appended to the
\* slides, the project is neither updated nor saved, exactly one failure
\* alert is shown and the processing flag is cleared.
C13_OpenFailureAborts ==
    OpenFailed =>
        /\ slides = upSlides
        /\ newSlides = <<>>
        /\ projectLog = <<>>
        /\ alerts = <<"Failed to parse PPTX">>
        /\ ~isProcessingPptx

\* C13 witness: an import ended on a container that did not open, in an
\* editor that had slides of a saved report.
C13_Witness == OpenFailed /\ Len(slides) = 2 /\ alerts # <<>>

----------------------------------------------------------------------------

(* Claims about the end of the import *)

\* C20: an import that has set the processing flag eventually clears it.
C20_ImportFinishes == isProcessingPptx ~> ~isProcessingPptx

----------------------------------------------------------------------------

(* Claims about the style of imported text *)

RECURSIVE AllRuns(_)
\* the runs of a text body in document order
AllRuns(paras) ==
    IF paras = <<>> THEN <<>> ELSE Head(paras).runs \o AllRuns(Tail(paras))

\* the style the first run with run properties gives, the defaults when no
\* run has any
StyleOfFirstStyledRun(paras) ==
    LET runs == AllRuns(paras)
        styled == {i \in 1..Len(runs) : runs[i].rPr.has}
    IN  IF styled = {} THEN DefaultStyle
        ELSE ApplyRunProperties(
                runs[CHOOSE i \in styled : \A j \in styled : i <= j].rPr,
                DefaultStyle)

RunStyleFields == {"fontSize", "color", "fontWeight", "fontStyle", "fontFamily"}

\* C15: font size, weight, style, colour and family of an imported text
\* element are those of the first run of its shape, in document order, that
\* carries run properties (the defaults when there is none).
C15_FirstStyledRunWins ==
    \A k \in 1..Len(newSlides) :
        \A e \in 1..Len(newSlides[k].elements) :
            LET el == newSlides[k].elements[e]
                sh == SourceOf(newSlides[k]).shapes[el.zIndex]
            IN  el.type = "text" =>
                    \A f \in RunStyleFields :
                        el.style[f] = StyleOfFirstStyledRun(sh.txBody.paras)[f]

----------------------------------------------------------------------------

(* Claims about the geometry of imported elements *)

\* C16: no imported element has a NaN coordinate or size (a shape whose
\* offset or extent attributes are not numbers yields no element).
C16_NoNaNGeometry ==
    \A k \in 1..Len(newSlides) :
        \A e \in 1..Len(newSlides[k].elements) :
            LET el == newSlides[k].elements[e]
            IN  ~IsNaN(el.x) /\ ~IsNaN(el.y) /\ ~IsNaN(el.w) /\ ~IsNaN(el.h)

IsNumericBox(el) == ~IsNaN(el.x) /\ ~IsNaN(el.y) /\ ~IsNaN(el.w) /\ ~IsNaN(el.h)

\* C17: every element of the editor's slides whose box is made of numbers
\* has x >= 0, y >= 0, w >= 5 and h >= 5.
C17_BoxWithinBounds ==
    \A k \in 1..Len(slides) :
        \A e \in 1..Len(slides[k].elements) :
            LET el == slides[k].elements[e]
            IN  IsNumericBox(el) =>
                    /\ el.x >= 0
                    /\ el.y >= 0
                    /\ el.w >= MIN_VISIBLE_PX
                    /\ el.h >= MIN_VISIBLE_PX

----------------------------------------------------------------------------

(* The editor: slide selection, new slides, new text *)

\* the slide the canvas renders
HasActiveSlide == activeSlideIdx \in 0..Len(slides) - 1
ActiveSlide == slides[activeSlideIdx + 1]

\* the ids of the elements in the document: the canvas renders the elements
\* of the active slide only, each in a div with id `element-${el.id}`
DomIds ==
    IF HasActiveSlide
    THEN {ActiveSlide.elements[i].id : i \in 1..Len(ActiveSlide.elements)}
    ELSE {}

\* onClick={() => setActiveSlideIdx(idx)} on a thumbnail
SelectSlide ==
    /\ \E idx \in 0..Len(slides) - 1 :
        /\ idx # activeSlideIdx
        /\ activeSlideIdx' = idx
    /\ UNCHANGED <<slides, selectedElementId, isProcessingPptx, isExporting,
                   projectLog, alerts, now, uploadVars, exportVars, libs, dashVars, agentVars>>

\* slides.filter((_, i) => i !== idx)
RemoveAt(S, idx) == [k \in 1..Len(S) - 1 |-> IF k <= idx THEN S[k] ELSE S[k + 1]]

\* the bin button of the thumbnail idx (0-based)
handleDeleteSlide ==
    /\ \E idx \in 0..Len(slides) - 1 :
        /\ ~(Len(slides) <= 1)
        /\ slides' = RemoveAt(slides, idx)
        /\ activeSlideIdx' = IF activeSlideIdx >= idx
                             THEN JsMax(0, activeSlideIdx - 1)
                             ELSE activeSlideIdx
    /\ UNCHANGED <<selectedElementId, isProcessingPptx, isExporting, projectLog,
                   alerts, now, uploadVars, exportVars, libs, dashVars, agentVars>>

handleAddSlide ==
    /\ now < MaxClock
    /\ now' = now + 1
    /\ slides' = Append(slides, BlankSlide(<<"slide", now>>))
    /\ activeSlideIdx' = Len(slides)
    /\ UNCHANGED <<selectedElementId, isProcessingPptx, isExporting, projectLog,
                   alerts, uploadVars, exportVars, libs, dashVars, agentVars>>

\* The slide objects are shared: `[...slides]` copies the array, not the
\* slides, so a handler that writes to newSlides[activeSlideIdx] writes to the
\* object that the `slides` captured by a pending import or export holds too.
SharedWrite(S, slide) ==
    [k \in 1..Len(S) |-> IF S[k].id = slide.id THEN slide ELSE S[k]]

\* the captured lists after a write to the active slide; an element list that
\* was replaced (not pushed to or sorted) while the export iterates over it
\* stays with the iterator
WriteThrough(slide, replaced) ==
    /\ upSlides' = IF upPc = "idle" THEN upSlides
                   ELSE SharedWrite(upSlides, slide)
    /\ exSlides' = IF exPc = "idle" THEN exSlides
                   ELSE IF /\ replaced /\ exPc = "running"
                           /\ exSlides[exSlideIdx].id = slide.id
                        THEN exSlides
                   ELSE SharedWrite(exSlides, slide)
    /\ UNCHANGED <<upPc, archive, pptWidthEmu, slideFiles, fileIdx, newSlides,
                   relsMap, exPc, exSlideIdx, exElIdx, pptxOut, pptxWritten,
                   rasterFails>>

NewText(id, z) ==
    [id |-> id, type |-> "text",
     content |-> <<"Double click to edit">>,
     x |-> 100, y |-> 100, w |-> 300, h |-> 50, zIndex |-> z,
     style |-> [fontSize |-> 24, color |-> "000000", fontWeight |-> "bold",
                fontStyle |-> "", textAlign |-> "", fontFamily |-> "Arial"],
     widgetId |-> ""]

handleAddText ==
    /\ now < MaxClock
    /\ HasActiveSlide
    /\ now' = now + 1
    /\ LET el == NewText(<<"text", now>>, Len(ActiveSlide.elements) + 1)
       IN  /\ slides' = [slides EXCEPT ![activeSlideIdx + 1].elements = Append(@, el)]
           /\ selectedElementId' = el.id
    /\ WriteThrough(slides'[activeSlideIdx + 1], FALSE)
    /\ UNCHANGED <<activeSlideIdx, isProcessingPptx, isExporting, projectLog,
                   alerts, libs, dashVars, agentVars>>

----------------------------------------------------------------------------
(* The editor: selection, deletion and stacking order of elements *)

\* position of the first element with the given id, 0 when there is none
\* (Array.prototype.find)
RECURSIVE ElementIndex(_, _, _)
ElementIndex(els, id, i) ==
    IF i > Len(els) THEN 0
    ELSE IF els[i].id = id THEN i
    ELSE ElementIndex(els, id, i + 1)

\* onClick={(e) => handleElementClick(e, el.id)} on a rendered element
handleElementClick ==
    /\ \E id \in DomIds :
        /\ id # selectedElementId
        /\ selectedElementId' = id
    /\ UNCHANGED <<slides, activeSlideIdx, isProcessingPptx, isExporting,
                   projectLog, alerts, now, uploadVars, exportVars, libs, dashVars, agentVars>>

\* elements.filter(el => el.id !== id)
RECURSIVE FilterOutId(_, _)
FilterOutId(els, id) ==
    IF els = <<>> THEN <<>>
    ELSE IF Head(els).id = id THEN FilterOutId(Tail(els), id)
    ELSE <<Head(els)>> \o FilterOutId(Tail(els), id)

\* the Delete button is rendered for the selected element of the active slide
deleteElement ==
    /\ selectedElementId # NoId
    /\ HasActiveSlide
    /\ ElementIndex(ActiveSlide.elements, selectedElementId, 1) # 0
    /\ slides' = [slides EXCEPT ![activeSlideIdx + 1].elements =
                    FilterOutId(@, selectedElementId)]
    /\ selectedElementId' = NoId
    /\ WriteThrough(slides'[activeSlideIdx + 1], TRUE)
    /\ UNCHANGED <<activeSlideIdx, isProcessingPptx, isExporting, projectLog,
                   alerts, now, libs, dashVars, agentVars>>

\* e.zIndex || 0
ZOrZero(e) == e.zIndex

\* Math.max(...elements.map(e => e.zIndex || 0), 0)
RECURSIVE MaxZ(_)
MaxZ(els) ==
    IF els = <<>> THEN 0
    ELSE LET m == MaxZ(Tail(els))
         IN  IF ZOrZero(Head(els)) > m THEN ZOrZero(Head(els)) ELSE m

\* elements.sort((a, b) => (a.zIndex || 0) - (b.zIndex || 0)); the sort is
\* stable: an element goes after every element that is not above it
RECURSIVE InsertByZ(_, _)
InsertByZ(sorted, e) ==
    IF sorted = <<>> THEN <<e>>
    ELSE IF ZOrZero(sorted[Len(sorted)]) - ZOrZero(e) <= 0
         THEN Append(sorted, e)
         ELSE Append(InsertByZ(SubSeq(sorted, 1, Len(sorted) - 1), e),
                     sorted[Len(sorted)])

RECURSIVE SortByZ(_)
SortByZ(els) ==
    IF els = <<>> THEN <<>>
    ELSE InsertByZ(SortByZ(SubSeq(els, 1, Len(els) - 1)), els[Len(els)])

\* Mutant of Renumber: the elements keep the z-order they were sorted by.
RenumberNot(els) == els

\* elements.forEach((e, i) => e.zIndex = i + 1)
Renumber(els) == [i \in 1..Len(els) |-> [els[i] EXCEPT !.zIndex = i]]

\* the elements of the slide after a front / back operation on element idx
ReorderElements(els, idx, action) ==
    LET target == IF action = "front" THEN MaxZ(els) + 1 ELSE 0
    IN  Renumber(SortByZ([els EXCEPT ![idx].zIndex = target]))

updateElementOrder(action) ==
    /\ selectedElementId # NoId
    /\ HasActiveSlide
    /\ LET idx == ElementIndex(ActiveSlide.elements, selectedElementId, 1)
       IN  /\ idx # 0
           /\ slides' = [slides EXCEPT ![activeSlideIdx + 1].elements =
                            ReorderElements(@, idx, action)]
    /\ WriteThrough(slides'[activeSlideIdx + 1], FALSE)
    /\ UNCHANGED <<activeSlideIdx, selectedElementId, isProcessingPptx,
                   isExporting, projectLog, alerts, now, libs, dashVars, agentVars>>

bringToFront == updateElementOrder("front")
sendToBack == updateElementOrder("back")

----------------------------------------------------------------------------

(* handleExport and generateCustomReport *)

\* a length in inches as the fraction n / d; NaN stays NaN
Inches(v, num, den) ==
    IF IsNaN(v) THEN [n |-> NaN, d |-> 1] ELSE [n |-> v * num, d |-> den]

\* slide.addImage({ data: slideData.background, x: 0, y: 0, w: '100%', h: '100%' })
BackgroundImage ==
    [src |-> <<"background">>,
     x |-> Inches(0, 1, 1), y |-> Inches(0, 1, 1),
     w |-> Inches(1, PPT_WIDTH_INCH, 1),
     h |-> Inches(1, PPT_HEIGHT_NUM, PPT_HEIGHT_DEN)]

\* Mutant of ElementImage: every fraction is taken of the canvas width.
ElementImageByWidth(el, canvasWidth, canvasHeight) ==
    [src |-> el.id,
     x |-> Inches(el.x, PPT_WIDTH_INCH, canvasWidth),
     y |-> Inches(el.y, PPT_HEIGHT_NUM, canvasWidth * PPT_HEIGHT_DEN),
     w |-> Inches(el.w, PPT_WIDTH_INCH, canvasWidth),
     h |-> Inches(el.h, PPT_HEIGHT_NUM, canvasWidth * PPT_HEIGHT_DEN)]

\* the image of an element: x = (el.x / canvasWidth) * PPT_WIDTH_INCH, ...
ElementImage(el, canvasWidth, canvasHeight) ==
    [src |-> el.id,
     x |-> Inches(el.x, PPT_WIDTH_INCH, canvasWidth),
     y |-> Inches(el.y, PPT_HEIGHT_NUM, canvasHeight * PPT_HEIGHT_DEN),
     w |-> Inches(el.w, PPT_WIDTH_INCH, canvasWidth),
     h |-> Inches(el.h, PPT_HEIGHT_NUM, canvasHeight * PPT_HEIGHT_DEN)]

\* pptx.addSlide() and the background of a slide
NewOutSlide(slideData) ==
    [images |-> IF slideData.background # "" THEN <<BackgroundImage>> ELSE <<>>]

\* Mutant of ScanToCapture: a slide without elements gets no output slide.
RECURSIVE ScanToCaptureSkipsEmpty(_, _, _, _, _)
ScanToCaptureSkipsEmpty(S, si, ei, out, dom) ==
    IF si > Len(S) THEN [pc |-> "done", si |-> si, ei |-> ei, out |-> out]
    ELSE LET out1 == IF ei = 1 /\ S[si].elements # <<>>
                     THEN Append(out, NewOutSlide(S[si])) ELSE out
         IN  IF ei > Len(S[si].elements)
             THEN ScanToCaptureSkipsEmpty(S, si + 1, 1, out1, dom)
             ELSE IF S[si].elements[ei].id \in dom
             THEN [pc |-> "running", si |-> si, ei |-> ei, out |-> out1]
             ELSE ScanToCaptureSkipsEmpty(S, si, ei + 1, out1, dom)

\* The loops of generateCustomReport from element ei of slide si on, up to the
\* next call of html2canvas (pc "running": an element with a node in the
\* document) or the end of the slides (pc "done").  Entering a slide (ei = 1)
\* adds its output slide.
RECURSIVE ScanToCapture(_, _, _, _, _)
ScanToCapture(S, si, ei, out, dom) ==
    IF si > Len(S) THEN [pc |-> "done", si |-> si, ei |-> ei, out |-> out]
    ELSE LET out1 == IF ei = 1 THEN Append(out, NewOutSlide(S[si])) ELSE out
         IN  IF ei > Len(S[si].elements)
             THEN ScanToCapture(S, si + 1, 1, out1, dom)
             ELSE IF S[si].elements[ei].id \in dom
             THEN [pc |-> "running", si |-> si, ei |-> ei, out |-> out1]
             ELSE ScanToCapture(S, si, ei + 1, out1, dom)

\* the state after a scan; at the end pptx.writeFile is called and
\* handleExport clears isExporting
ExportProceeds(r) ==
    /\ exSlideIdx' = r.si
    /\ exElIdx' = r.ei
    /\ pptxOut' = r.out
    /\ IF r.pc = "done"
       THEN /\ pptxWritten' = pptxWritten + 1
            /\ isExporting' = FALSE
            /\ exPc' = "idle"
       ELSE /\ exPc' = "running"
            /\ UNCHANGED <<pptxWritten, isExporting>>

\* Mutant of ExportLibsMissing: the rasterizer is not looked for.
ExportLibsMissingNoRaster == "PptxGenJS" \notin libs

\* !window.PptxGenJS || !window.html2canvas, the first statement of both
\* export functions
ExportLibsMissing == "PptxGenJS" \notin libs \/ "html2canvas" \notin libs

\* the Export button
handleExport ==
    /\ ~isExporting
    /\ exPc = "idle"
    /\ now < MaxClock
    /\ now' = now + 1
    /\ isExporting' = TRUE
    /\ selectedElementId' = NoId
    /\ exSlides' = slides
    /\ exPc' = "timer"
    /\ UNCHANGED <<slides, activeSlideIdx, isProcessingPptx, projectLog, alerts,
                   uploadVars, exSlideIdx, exElIdx, pptxOut, pptxWritten,
                   rasterFails, libs, dashVars, agentVars>>

\* The timer fires: generateCustomReport runs up to its first await.
ExportBegin ==
    /\ exPc = "timer"
    /\ IF ExportLibsMissing
       THEN /\ alerts' = Append(alerts, "Export libraries not loaded.")
            /\ isExporting' = FALSE
            /\ exPc' = "idle"
            /\ UNCHANGED <<exSlideIdx, exElIdx, pptxOut, pptxWritten, rasterFails>>
       ELSE /\ rasterFails' = FALSE
            /\ ExportProceeds(ScanToCapture(exSlides, 1, 1, <<>>, DomIds))
            /\ UNCHANGED alerts
    /\ UNCHANGED <<slides, activeSlideIdx, selectedElementId, isProcessingPptx,
                   projectLog, now, uploadVars, exSlides, libs, dashVars, agentVars>>

\* html2canvas settles for the element awaited: its image is added (or the
\* failure logged) and the loops go on to the next capture.
CaptureDone ==
    /\ exPc = "running"
    /\ \E ok \in BOOLEAN :
        LET el == exSlides[exSlideIdx].elements[exElIdx]
            out1 == IF ok
                    THEN [pptxOut EXCEPT ![Len(pptxOut)].images =
                            Append(@, ElementImage(el, CANVAS_WIDTH, CANVAS_HEIGHT))]
                    ELSE pptxOut
        IN  /\ rasterFails' = (rasterFails \/ ~ok)
            /\ ExportProceeds(ScanToCapture(exSlides, exSlideIdx, exElIdx + 1,
                                            out1, DomIds))
    /\ UNCHANGED <<slides, activeSlideIdx, selectedElementId, isProcessingPptx,
                   projectLog, alerts, now, uploadVars, exSlides, libs, dashVars, agentVars>>

----------------------------------------------------------------------------
(* The dashboard view: handleExportPPT and generatePowerPoint *)

\* a .report-widget node: the text of its .widget-title and .widget-meta,
\* and whether html2canvas resolves for it
Widget(title, meta, renders) ==
    [title |-> title, meta |-> meta, renders |-> renders]

\* the dashboards the export is checked on
WidgetLists ==
    SeqsUpTo({Widget("Sentiment", "donut", TRUE), Widget("", "", TRUE),
              Widget("Sentiment", "donut", FALSE), Widget("", "", FALSE)},
             MaxWidgets)

\* the filters of the dashboard
Filter(column, value) == [column |-> column, value |-> value]
FilterLists == SeqsUpTo({Filter("channel", "web"), Filter("", "")}, MaxFilters)

\* a string as the sequence of its non-empty pieces
Str(piece) == IF piece = "" THEN <<>> ELSE <<piece>>

\* filters.map(f => `${f.column}=${f.value}`).join(', ')
RECURSIVE JoinFilters(_)
JoinFilters(fs) ==
    IF fs = <<>> THEN <<>>
    ELSE LET one == Str(Head(fs).column) \o <<"=">> \o Str(Head(fs).value)
         IN  IF Len(fs) = 1 THEN one
             ELSE one \o <<", ">> \o JoinFilters(Tail(fs))

\* Mutant of TitleSlide: the filter line is added whatever the string.
TitleSlideFiltersAlways(activeFiltersStr) ==
    [kind |-> "title", title |-> <<"Social Listening Report">>,
     filters |-> <<"Filters Applied: ">> \o activeFiltersStr,
     meta |-> "", widget |-> 0]

\* Slide 1: the title slide, with the filter line `if (activeFiltersStr)`
TitleSlide(activeFiltersStr) ==
    [kind |-> "title", title |-> <<"Social Listening Report">>,
     filters |-> IF activeFiltersStr # <<>>
                 THEN <<"Filters Applied: ">> \o activeFiltersStr
                 ELSE <<>>,
     meta |-> "", widget |-> 0]

\* the slide of widget i: header, metadata when there is any, the image
WidgetSlide(w, i) ==
    [kind |-> "widget",
     title |-> IF w.title # "" THEN <<w.title>> ELSE <<"Chart", i>>,
     filters |-> <<>>,
     meta |-> w.meta,
     widget |-> i]

\* the PPTX button of the dashboard
handleExportPPT ==
    /\ ~anExporting
    /\ dashPc = "idle"
    /\ now < MaxClock
    /\ now' = now + 1
    /\ anExporting' = TRUE
    /\ dashPc' = "timer"
    /\ \E fs \in FilterLists : dashFilters' = fs
    /\ UNCHANGED <<slides, activeSlideIdx, selectedElementId, isProcessingPptx,
                   isExporting, projectLog, alerts, uploadVars, exportVars,
                   libs, dashWidgets, dashIdx, dashOut, dashWritten, agentVars>>

\* pptx.writeFile, then handleExportPPT clears its flag
DashWrites ==
    /\ dashWritten' = dashWritten + 1
    /\ anExporting' = FALSE
    /\ dashPc' = "idle"

DashLibsAlert ==
    "Export libraries are not fully loaded. Please refresh the page."

\* The timer fires: generatePowerPoint runs up to its first await.
DashExportBegin ==
    /\ dashPc = "timer"
    /\ IF ExportLibsMissing
       THEN /\ alerts' = Append(alerts, DashLibsAlert)
            /\ anExporting' = FALSE
            /\ dashPc' = "idle"
            /\ UNCHANGED <<dashWidgets, dashIdx, dashOut, dashWritten>>
       ELSE /\ \E ws \in WidgetLists :
                /\ dashWidgets' = ws
                /\ dashOut' = <<TitleSlide(JoinFilters(dashFilters))>>
                /\ IF ws = <<>>
                   THEN /\ dashIdx' = 0
                        /\ DashWrites
                   ELSE /\ dashIdx' = 1
                        /\ dashPc' = "running"
                        /\ UNCHANGED <<anExporting, dashWritten>>
            /\ UNCHANGED alerts
    /\ UNCHANGED <<slides, activeSlideIdx, selectedElementId, isProcessingPptx,
                   isExporting, projectLog, now, uploadVars, exportVars, libs,
                   dashFilters, agentVars>>

\* Mutant of DashAfterCapture: a failed capture ends the loop.
DashAfterCaptureAborts(ok, i, n) == IF ok /\ i < n THEN i + 1 ELSE 0

\* the widget the loop goes on with after widget i of n, 0 at the end of the
\* loop; the catch lies inside the loop body
DashAfterCapture(ok, i, n) == IF i < n THEN i + 1 ELSE 0

\* html2canvas settles for the widget awaited: its slide is added (or the
\* failure logged) and the loop goes on
DashCaptureDone ==
    /\ dashPc = "running"
    /\ LET ok == dashWidgets[dashIdx].renders IN
        /\ dashOut' = IF ok
                      THEN Append(dashOut, WidgetSlide(dashWidgets[dashIdx], dashIdx))
                      ELSE dashOut
        /\ LET next == DashAfterCapture(ok, dashIdx, Len(dashWidgets))
           IN  IF next = 0
               THEN DashWrites /\ UNCHANGED dashIdx
               ELSE /\ dashIdx' = next
                    /\ UNCHANGED <<anExporting, dashPc, dashWritten>>
    /\ UNCHANGED <<editorVars, uploadVars, exportVars, libs, dashFilters,
                   dashWidgets, agentVars>>

----------------------------------------------------------------------------

(* The AI agent view: handlers.  The chat log (messages) is read by no
   handler and is left out. *)

RangeOf(S) == {S[k] : k \in 1..Len(S)}

MinOf(a, b) == IF a <= b THEN a ELSE b
MaxOf(a, b) == IF a >= b THEN a ELSE b

\* Array.prototype.slice(start, end), indices counted from 0
Slice(S, start, end) ==
    LET len == Len(S)
        from == IF start < 0 THEN MaxOf(len + start, 0) ELSE MinOf(start, len)
        to == IF end < 0 THEN MaxOf(len + end, 0) ELSE MinOf(end, len)
    IN  [k \in 1..MaxOf(to - from, 0) |-> S[from + k]]

\* getSelectedData: the rows of the filtered view between the two ends of
\* the selection
getSelectedData(display, sel) ==
    IF sel = NoSelection THEN <<>>
    ELSE Slice(display, MinOf(sel.startRow, sel.endRow),
               MaxOf(sel.startRow, sel.endRow) + 1)

AgentRest == UNCHANGED <<editorVars, uploadVars, exportVars, libs, dashVars>>

\* a handler that reads Date.now() for the id of a chat message
AgentRestAt(t) ==
    /\ now' = t
    /\ UNCHANGED <<slides, activeSlideIdx, selectedElementId, isProcessingPptx,
                   isExporting, projectLog, alerts, uploadVars, exportVars, libs,
                   dashVars>>

\* the button "Project Data", followed by the effect that loads the project
SwitchToProject ==
    /\ ~showTargetModal
    /\ sourceMode = "upload"
    /\ sourceMode' = "project"
    /\ LoadProject
    /\ UNCHANGED <<targetCol, pendingActionPrompt, showTargetModal, isProcessing,
                   isUploading, aiPc, aiClosure, fuPc, fuFile>>
    /\ AgentRest

\* the button "External File": the effect does nothing in this mode
SwitchToUpload ==
    /\ ~showTargetModal
    /\ sourceMode = "project"
    /\ sourceMode' = "upload"
    /\ UNCHANGED <<gridData, columns, filters, selection, targetCol,
                   pendingActionPrompt, showTargetModal, isProcessing,
                   isUploading, aiPc, aiClosure, fuPc, fuFile>>
    /\ AgentRest

\* the columns the user filters and the one whose cells the user clicks
FilteredCols == {"tag"}
ClickedCols == {"text"}

\* the values a column filter offers: those of the column in the grid
FilterChoices(col) ==
    {NoFilter} \cup {{StrVal(gridData[i][col])} : i \in 1..Len(gridData)}

\* onApply: setFilters({ ...filters, [col]: vals })
ApplyFilter ==
    /\ ~showTargetModal
    /\ \E col \in FilteredCols \cap RangeOf(columns) :
          \E vals \in FilterChoices(col) :
              filters' = [filters EXCEPT ![col] = vals]
    /\ UNCHANGED <<sourceMode, gridData, columns, selection, targetCol,
                   pendingActionPrompt, showTargetModal, isProcessing,
                   isUploading, aiPc, aiClosure, fuPc, fuFile>>
    /\ AgentRest

\* "Clear All" of the filter bar, shown when some filter is set
ClearFilters ==
    /\ ~showTargetModal
    /\ \E c \in RowKeys : filters[c] # NoFilter
    /\ filters' = NoFilters
    /\ UNCHANGED <<sourceMode, gridData, columns, selection, targetCol,
                   pendingActionPrompt, showTargetModal, isProcessing,
                   isUploading, aiPc, aiClosure, fuPc, fuFile>>
    /\ AgentRest

\* a cell of a rendered row is pressed, with or without the shift key
handleMouseDown ==
    /\ ~showTargetModal
    /\ \E rowVisualIdx \in 0..(Len(displayData(gridData, filters)) - 1),
          col \in ClickedCols \cap RangeOf(columns), shiftKey \in BOOLEAN :
          selection' =
              IF shiftKey /\ selection # NoSelection
              THEN [selection EXCEPT !.endRow = rowVisualIdx, !.endCol = col]
              ELSE [startRow |-> rowVisualIdx, startCol |-> col,
                    endRow |-> rowVisualIdx, endCol |-> col]
    /\ UNCHANGED <<sourceMode, gridData, columns, filters, targetCol,
                   pendingActionPrompt, showTargetModal, isProcessing,
                   isUploading, aiPc, aiClosure, fuPc, fuFile>>
    /\ AgentRest

\* a column header is clicked: the whole column of the filtered view
SelectColumn ==
    /\ ~showTargetModal
    /\ \E col \in ClickedCols \cap RangeOf(columns) :
          selection' = [startRow |-> 0, startCol |-> col,
                        endRow |-> Len(displayData(gridData, filters)) - 1,
                        endCol |-> col]
    /\ UNCHANGED <<sourceMode, gridData, columns, filters, targetCol,
                   pendingActionPrompt, showTargetModal, isProcessing,
                   isUploading, aiPc, aiClosure, fuPc, fuFile>>
    /\ AgentRest

\* a prompt is sent in action mode with a selection: the target dialog opens
handleSendMessage ==
    /\ ~showTargetModal
    /\ ~isProcessing
    /\ now < MaxClock
    /\ selection # NoSelection
    /\ pendingActionPrompt' = TRUE
    /\ targetCol' = NoCol
    /\ showTargetModal' = TRUE
    /\ UNCHANGED <<sourceMode, gridData, columns, filters, selection,
                   isProcessing, isUploading, aiPc, aiClosure, fuPc, fuFile>>
    /\ AgentRestAt(now + 1)

\* the dialog's select and text input: an existing column or a new one
SetTargetCol ==
    /\ showTargetModal
    /\ \E c \in RangeOf(columns) \cup {NewKey} : targetCol' = c
    /\ UNCHANGED <<sourceMode, gridData, columns, filters, selection,
                   pendingActionPrompt, showTargetModal, isProcessing,
                   isUploading, aiPc, aiClosure, fuPc, fuFile>>
    /\ AgentRest

\* the dialog's Cancel and X buttons
CancelTarget ==
    /\ showTargetModal
    /\ showTargetModal' = FALSE
    /\ UNCHANGED <<sourceMode, gridData, columns, filters, selection, targetCol,
                   pendingActionPrompt, isProcessing, isUploading, aiPc,
                   aiClosure, fuPc, fuFile>>
    /\ AgentRest

\* executeAction up to its await: the closure holds the grid, the columns, the
\* filtered view, the selection and the target of this render
executeAction ==
    /\ showTargetModal
    /\ targetCol # NoCol /\ pendingActionPrompt /\ selection # NoSelection
    /\ showTargetModal' = FALSE
    /\ isProcessing' = TRUE
    /\ aiPc' = "pending"
    /\ LET display == displayData(gridData, filters)
       IN  aiClosure' = [gridData |-> gridData, columns |-> columns,
                         displayData |-> display, selection |-> selection,
                         targetCol |-> targetCol,
                         sourceData |-> Len(getSelectedData(display, selection))]
    /\ UNCHANGED <<sourceMode, gridData, columns, filters, selection, targetCol,
                   pendingActionPrompt, isUploading, fuPc, fuFile>>
    /\ AgentRest

\* processAiAgentAction: one result for each row it was sent
AiResults(sourceData) == [i \in 1..sourceData |-> "r"]

\* the loop over the results: result i goes to the row of the captured view
\* at visual index minR + i, found again in the grid by its _originalIndex
RECURSIVE WriteResults(_, _, _, _, _, _)
WriteResults(newGridData, results, i, minR, display, col) ==
    IF i >= Len(results) THEN newGridData
    ELSE LET visualIdx == minR + i
         IN  IF visualIdx >= 0 /\ visualIdx < Len(display)
             THEN LET originalIdx == display[visualIdx + 1]._originalIndex
                  IN  WriteResults(
                          [newGridData EXCEPT ![originalIdx + 1][col] = results[i + 1]],
                          results, i + 1, minR, display, col)
             ELSE WriteResults(newGridData, results, i + 1, minR, display, col)

\* executeAction after its await on success
AiResolves ==
    /\ aiPc = "pending"
    /\ LET c == aiClosure
           minR == MinOf(c.selection.startRow, c.selection.endRow)
       IN  /\ columns' = IF c.targetCol \in RangeOf(c.columns) THEN columns
                         ELSE Append(c.columns, c.targetCol)
           /\ gridData' = WriteResults(c.gridData,
                                       AiResults(c.sourceData), 0, minR,
                                       c.displayData, c.targetCol)
    /\ isProcessing' = FALSE
    /\ pendingActionPrompt' = FALSE
    /\ aiPc' = "idle"
    /\ aiClosure' = NoClosure
    /\ UNCHANGED <<sourceMode, filters, selection, targetCol, showTargetModal,
                   isUploading, fuPc, fuFile>>
    /\ AgentRest

\* executeAction after its await on failure: catch and finally
AiRejects ==
    /\ aiPc = "pending"
    /\ isProcessing' = FALSE
    /\ pendingActionPrompt' = FALSE
    /\ aiPc' = "idle"
    /\ aiClosure' = NoClosure
    /\ UNCHANGED <<sourceMode, gridData, columns, filters, selection, targetCol,
                   showTargetModal, isUploading, fuPc, fuFile>>
    /\ AgentRest

\* handleFileUpload up to its await; the input exists in upload mode only.
\* The clock is advanced here for the Date.now() of the message that reports
\* the upload.
handleFileUpload ==
    /\ ~showTargetModal
    /\ sourceMode = "upload"
    /\ ~isUploading
    /\ now < MaxClock
    /\ \E file \in UploadedFiles : fuFile' = file
    /\ isUploading' = TRUE
    /\ fuPc' = "parsing"
    /\ UNCHANGED <<sourceMode, gridData, columns, filters, selection, targetCol,
                   pendingActionPrompt, showTargetModal, isProcessing, aiPc,
                   aiClosure>>
    /\ AgentRestAt(now + 1)

\* inferColumns(newData[0]).map(c => c.key)
inferColumns(row) == SelectSeq(DataKeys \o <<NewKey>>, LAMBDA k : row[k] # Undefined)

\* handleFileUpload after its await on success
FileParsed ==
    /\ fuPc = "parsing"
    /\ IF Len(fuFile) > 0
       THEN /\ gridData' = fuFile
            /\ columns' = inferColumns(fuFile[1])
            /\ filters' = NoFilters
            /\ selection' = NoSelection
       ELSE UNCHANGED <<gridData, columns, filters, selection>>
    /\ isUploading' = FALSE
    /\ fuPc' = "idle"
    /\ fuFile' = <<>>
    /\ UNCHANGED <<sourceMode, targetCol, pendingActionPrompt, showTargetModal,
                   isProcessing, aiPc, aiClosure>>
    /\ AgentRest

\* handleFileUpload after its await on failure: catch and finally
FileRejected ==
    /\ fuPc = "parsing"
    /\ alerts' = Append(alerts, "Failed to upload file")
    /\ isUploading' = FALSE
    /\ fuPc' = "idle"
    /\ fuFile' = <<>>
    /\ UNCHANGED <<sourceMode, gridData, columns, filters, selection, targetCol,
                   pendingActionPrompt, showTargetModal, isProcessing, aiPc,
                   aiClosure>>
    /\ UNCHANGED <<slides, activeSlideIdx, selectedElementId, isProcessingPptx,
                   isExporting, projectLog, now, uploadVars, exportVars, libs,
                   dashVars>>

----------------------------------------------------------------------------
(* Specification of the AI agent view *)

NextAgent ==
    \/ SwitchToProject
    \/ SwitchToUpload
    \/ ApplyFilter
    \/ ClearFilters
    \/ handleMouseDown
    \/ SelectColumn
    \/ handleSendMessage
    \/ SetTargetCol
    \/ CancelTarget
    \/ executeAction
    \/ AiResolves
    \/ AiRejects
    \/ handleFileUpload
    \/ FileParsed
    \/ FileRejected

SpecAgent == InitWith(<<>>, AllLibs) /\ [][NextAgent]_vars

----------------------------------------------------------------------------

(* Specification of the editor with import and export *)

\* one slide holding a text shape and a picture, at offsets on and off the
\* page
RoundXs == {Emu(-20), Emu(-10), Emu(480)}
RoundYs == {Emu(0), Emu(270)}

RoundText(x, y) == TextShape(Off(x, y), Ext(Emu(480), Emu(270)), PlainText)
RoundPic(x, y) == PicShape(Off(x, y), Ext(Emu(480), Emu(270)), "rId1", "")

RoundShapes ==
    {<<RoundText(tx, ty), RoundPic(px, py)>> :
        tx \in RoundXs, ty \in RoundYs, px \in RoundXs, py \in RoundYs}

RoundFiles ==
    {Pptx(PresOther("absent"), <<SlideEntry(<<1>>, ImageRels, shapes)>>) :
        shapes \in RoundShapes}

\* two slides with one text shape each
TwoSlideFile ==
    Pptx(PresOther("absent"),
         <<SlideEntry(<<2>>, NoRels, <<PlainTextShape>>),
           SlideEntry(<<1>>, NoRels, <<PlainTextShape>>)>>)

\* one slide with a text shape on the lower right quadrant and a picture that
\* starts left of the page
QuadrantFile ==
    Pptx(PresOther("absent"),
         <<SlideEntry(<<1>>, ImageRels,
              <<RoundText(Emu(480), Emu(270)), RoundPic(Emu(-20), Emu(0))>>)>>)

EditorFiles == {QuadrantFile, TwoSlideFile} \cup BadFiles

LibChoices == {AllLibs, AllLibs \ {"html2canvas"}}

Init == \E rc \in InitialConfigs, ls \in LibChoices : InitWith(rc, ls)

Next ==
    \/ StartUpload(EditorFiles)
    \/ OpenArchive
    \/ DecodeSlide
    \/ FinishUpload
    \/ SelectSlide
    \/ handleAddSlide
    \/ handleAddText
    \/ handleExport
    \/ ExportBegin
    \/ CaptureDone

Spec == Init /\ [][Next]_vars

----------------------------------------------------------------------------
(* Specification of the slide list: slides are added, deleted and selected
   before, during and after an import *)

NextSlides ==
    \/ StartUpload(EditorFiles)
    \/ OpenArchive
    \/ DecodeSlide
    \/ FinishUpload
    \/ SelectSlide
    \/ handleAddSlide
    \/ handleDeleteSlide

SpecSlides == Init /\ [][NextSlides]_vars

----------------------------------------------------------------------------

(* Specification of the round trip: an import and an export, nothing else *)

NextRoundTrip ==
    \/ StartUpload(RoundFiles)
    \/ OpenArchive
    \/ DecodeSlide
    \/ FinishUpload
    \/ handleExport
    \/ ExportBegin
    \/ CaptureDone

SpecRoundTrip == Init /\ [][NextRoundTrip]_vars

----------------------------------------------------------------------------
(* Specification of the layers: a saved report is edited, then exported *)

\* a text element as handleAddText made it in an earlier session
LayerText(n, z) ==
    [NewText(<<"text", n>>, z) EXCEPT !.x = 100 + 20 * z, !.y = 100 + 20 * z]

\* reportConfig saved after three texts were added to the first slide
LayerConfig ==
    <<[id |-> <<"slide", 0>>, background |-> "",
       elements |-> <<LayerText(-3, 1), LayerText(-2, 2), LayerText(-1, 3)>>]>>

\* the session has time for one new text and one export
InitLayers == InitAt(LayerConfig, AllLibs, MaxClock - 2)

\* the editing steps are taken while no export is under way
NextLayers ==
    \/ exPc = "idle" /\ handleElementClick
    \/ exPc = "idle" /\ deleteElement
    \/ exPc = "idle" /\ handleAddText
    \/ exPc = "idle" /\ bringToFront
    \/ exPc = "idle" /\ sendToBack
    \/ handleExport
    \/ ExportBegin
    \/ CaptureDone

SpecLayers == InitLayers /\ [][NextLayers]_vars

----------------------------------------------------------------------------

(* Specification of the two exports: the report of the editor and the
   dashboard, with or without the export libraries.  The report is edited
   between exports and while one runs. *)

ExportLibChoices ==
    {AllLibs, AllLibs \ {"html2canvas"}, AllLibs \ {"PptxGenJS"}}

InitExports ==
    \E rc \in InitialConfigs, ls \in ExportLibChoices : InitWith(rc, ls)

\* the dashboard of this specification has no filter, and its widgets have
\* a title
TitledWidgets(ws) == \A i \in 1..Len(ws) : ws[i].title # ""

NextExports ==
    \/ SelectSlide
    \/ handleAddText
    \/ handleExport
    \/ ExportBegin
    \/ CaptureDone
    \/ handleExportPPT /\ dashFilters' = <<>>
    \/ DashExportBegin /\ TitledWidgets(dashWidgets')
    \/ DashCaptureDone

SpecExports == InitExports /\ [][NextExports]_vars

----------------------------------------------------------------------------
(* Specification of the dashboard export alone, with every dashboard *)

NextDashboard ==
    \/ handleExportPPT
    \/ DashExportBegin
    \/ DashCaptureDone

\* the dashboard view does not read the report: the editor holds its default
\* slide
InitDashboard == \E ls \in ExportLibChoices : InitWith(<<>>, ls)

SpecDashboard == InitDashboard /\ [][NextDashboard]_vars

----------------------------------------------------------------------------

(* Claims about the export *)

\* pptxOut belongs to exSlides: an export is running or has been written
OutputIsCurrent == exPc = "running" \/ (exPc = "idle" /\ pptxWritten >= 1)

\* generateCustomReport returned after writing the file
ExportCompleted == exPc = "idle" /\ pptxWritten >= 1

ElementImages(out) ==
    {i \in 1..Len(out.images) : out.images[i].src # <<"background">>}

ImagesOf(out, id) == {i \in 1..Len(out.images) : out.images[i].src = id}

\* the fraction f is the length (v / canvas) * num / den inches
IsScaled(f, v, canvas, num, den) == f.n * canvas * den = v * num * f.d

\* C8: every element image is placed at x = (el.x / 960) * 10,
\* y = (el.y / 540) * 5.625, w = (el.w / 960) * 10, h = (el.h / 540) * 5.625
\* inches; an element at (480, 270) of size (480, 270) lands on the quadrant
\* from the centre (5, 2.8125) of size (5, 2.8125).
C8_ExportGeometry ==
    OutputIsCurrent =>
        \A k \in 1..Len(pptxOut) :
            \A i \in ElementImages(pptxOut[k]) :
                LET img == pptxOut[k].images[i]
                IN  \E e \in 1..Len(exSlides[k].elements) :
                        LET el == exSlides[k].elements[e]
                        IN  /\ el.id = img.src
                            /\ IsScaled(img.x, el.x, CANVAS_WIDTH, 10, 1)
                            /\ IsScaled(img.y, el.y, CANVAS_HEIGHT, 45, 8)
                            /\ IsScaled(img.w, el.w, CANVAS_WIDTH, 10, 1)
                            /\ IsScaled(img.h, el.h, CANVAS_HEIGHT, 45, 8)
                            /\ (el.x = 480 /\ el.y = 270 /\ el.w = 480 /\ el.h = 270)
                                => /\ 2 * img.x.n = 10 * img.x.d
                                   /\ 16 * img.y.n = 45 * img.y.d
                                   /\ 2 * img.w.n = 10 * img.w.d
                                   /\ 16 * img.h.n = 45 * img.h.d

\* C8 witness: a written export holding the image of an element at (480, 270)
\* of size (480, 270).
C8_Witness ==
    /\ ExportCompleted
    /\ \E k \in 1..Len(pptxOut) :
        \E i \in ElementImages(pptxOut[k]) :
            \E e \in 1..Len(exSlides[k].elements) :
                LET el == exSlides[k].elements[e]
                IN  /\ el.id = pptxOut[k].images[i].src
                    /\ el.x = 480 /\ el.y = 270 /\ el.w = 480 /\ el.h = 270
                    /\ 2 * pptxOut[k].images[i].x.n = 10 * pptxOut[k].images[i].x.d

\* f < g for two fractions with positive denominators
FracLess(f, g) == f.n * g.d < g.n * f.d

\* the fractions f1, f2 do not stand in the reverse order of a1, a2
SameOrder(a1, a2, f1, f2) ==
    /\ (a1 < a2) => ~FracLess(f2, f1)
    /\ (a2 < a1) => ~FracLess(f1, f2)

\* the export took the slides as the import left them, with the imported
\* slide on the canvas, and every capture succeeded
RoundTripDone ==
    /\ UploadCompleted
    /\ archive \in RoundFiles
    /\ ExportCompleted
    /\ ~rasterFails
    /\ exSlides = upSlides \o newSlides
    /\ slides = exSlides
    /\ activeSlideIdx = Len(upSlides)

\* C9: importing one slide with one text shape and one picture and exporting
\* the result gives exactly one output slide with content, carrying exactly
\* two images, which stand left/right and above/below of each other as the
\* shapes do in the source (the shape further left or further up in the
\* source is not further right or further down in the output).
C9_RoundTripKeepsOrder ==
    RoundTripDone =>
        LET k == Len(pptxOut)
            sh == SourceOf(newSlides[1]).shapes
            els == newSlides[1].elements
        IN  /\ {j \in 1..Len(pptxOut) : pptxOut[j].images # <<>>} = {k}
            /\ Len(pptxOut[k].images) = 2
            /\ Len(els) = 2
            /\ LET i1 == CHOOSE i \in 1..2 : pptxOut[k].images[i].src = els[1].id
                   i2 == CHOOSE i \in 1..2 : pptxOut[k].images[i].src = els[2].id
               IN  /\ SameOrder(parseIntOr0(sh[1].off.x), parseIntOr0(sh[2].off.x),
                                pptxOut[k].images[i1].x, pptxOut[k].images[i2].x)
                   /\ SameOrder(parseIntOr0(sh[1].off.y), parseIntOr0(sh[2].off.y),
                                pptxOut[k].images[i1].y, pptxOut[k].images[i2].y)

\* C10: when every capture succeeds, output slide k carries exactly one image
\* for each element of input slide k, whichever slide is on the canvas.
C10_EveryElementPlaced ==
    (ExportCompleted /\ ~rasterFails) =>
        /\ Len(pptxOut) = Len(exSlides)
        /\ \A k \in 1..Len(exSlides) :
            /\ Cardinality(ElementImages(pptxOut[k])) = Len(exSlides[k].elements)
            /\ \A e \in 1..Len(exSlides[k].elements) :
                Cardinality(ImagesOf(pptxOut[k], exSlides[k].elements[e].id)) = 1

----------------------------------------------------------------------------
(* Claims about the stacking order *)

ElementIds(els) == {els[i].id : i \in 1..Len(els)}

\* element a lies beneath element b: lower z-order, or the same z-order and
\* earlier in the list
Beneath(els, a, b) ==
    LET i == ElementIndex(els, a, 1)
        j == ElementIndex(els, b, 1)
    IN  \/ els[i].zIndex < els[j].zIndex
        \/ (els[i].zIndex = els[j].zIndex /\ i < j)

\* what a front / back step on the selected element leaves behind
LayersAfter(action) ==
    LET old == ActiveSlide.elements
        new == slides'[activeSlideIdx + 1].elements
        N == Len(old)
        sel == selectedElementId
    IN  /\ Len(new) = N
        /\ ElementIds(new) = ElementIds(old)
        /\ {new[i].zIndex : i \in 1..N} = 1..N
        /\ \A i, j \in 1..N : i < j => new[i].zIndex < new[j].zIndex
        /\ new[ElementIndex(new, sel, 1)].zIndex = IF action = "front" THEN N ELSE 1
        /\ \A a, b \in ElementIds(old) \ {sel} :
            a # b => (Beneath(old, a, b) <=> Beneath(new, a, b))
        /\ \A i \in 1..N :
            [new[i] EXCEPT !.zIndex = 0]
                = [old[ElementIndex(old, new[i].id, 1)] EXCEPT !.zIndex = 0]

\* C18: after updateElementOrder on a slide of N elements the z-orders are
\* exactly 1..N without duplicates, the list is ascending by z-order, the
\* selected element has z-order N (front) or 1 (back), and the other
\* elements lie beneath one another as before.
C18_ReorderKeepsLayers ==
    [][\A action \in {"front", "back"} :
            updateElementOrder(action) => LayersAfter(action)]_vars

\* C18 witness: the element saved first is now the topmost of three, above
\* the two it was beneath.
C18_Witness ==
    /\ Len(slides[1].elements) = 3
    /\ slides[1].elements[1].id = <<"text", -2>>
    /\ slides[1].elements[2].id = <<"text", -1>>
    /\ slides[1].elements[3].id = <<"text", -3>>
    /\ slides[1].elements[3].zIndex = 3

\* the z-order of the element of slide k an image was taken of
ZOfImage(k, img) ==
    exSlides[k].elements[ElementIndex(exSlides[k].elements, img.src, 1)].zIndex

\* C19: in a written export the element images of every slide were added in
\* ascending order of the elements' z-order: no image is followed by the
\* image of an element with a lower z-order.
C19_ExportInZOrder ==
    ExportCompleted =>
        \A k \in 1..Len(pptxOut) :
            \A i, j \in ElementImages(pptxOut[k]) :
                i < j => ZOfImage(k, pptxOut[k].images[i])
                            <= ZOfImage(k, pptxOut[k].images[j])

----------------------------------------------------------------------------
(* Claims about the two exports *)

LibraryMissing == {"PptxGenJS", "html2canvas"} \ libs # {}

NothingExported ==
    /\ pptxOut = <<>> /\ pptxWritten = 0
    /\ dashOut = <<>> /\ dashWritten = 0

\* C14: when the presentation library or the rasterizer is missing, no step
\* creates a slide or writes a file, and each export function, when its timer
\* fires, alerts the user once and returns.
C14_LibrariesCheckedFirst ==
    [][LibraryMissing =>
        /\ NothingExported /\ NothingExported'
        /\ (exPc = "timer" /\ exPc' # "timer" =>
                /\ alerts' = Append(alerts, "Export libraries not loaded.")
                /\ exPc' = "idle" /\ ~isExporting')
        /\ (dashPc = "timer" /\ dashPc' # "timer" =>
                /\ alerts' = Append(alerts, DashLibsAlert)
                /\ dashPc' = "idle" /\ ~anExporting')]_vars

C14_Witness ==
    /\ "html2canvas" \notin libs
    /\ alerts = <<"Export libraries not loaded.", DashLibsAlert>>
    /\ exPc = "idle" /\ dashPc = "idle"
    /\ NothingExported

\* the output slide out is the one made for the input slide slideData: it has
\* the background image exactly when the slide has a background, and every
\* other image is the capture of an element of that slide
IsOutputOf(out, slideData) ==
    /\ (\E i \in 1..Len(out.images) : out.images[i].src = <<"background">>)
            <=> slideData.background # ""
    /\ \A i \in ElementImages(out) :
            \E j \in 1..Len(slideData.elements) :
                slideData.elements[j].id = out.images[i].src

\* C11: a written report has exactly one output slide per slide handed to
\* generateCustomReport, the k-th output slide made for the k-th input slide,
\* whatever the elements of the slides and the outcome of their captures.
C11_OneSlidePerInput ==
    ExportCompleted =>
        /\ Len(pptxOut) = Len(exSlides)
        /\ \A k \in 1..Len(pptxOut) : IsOutputOf(pptxOut[k], exSlides[k])

\* a report of several slides is written in which a slide has no elements
\* and the only capture of another slide failed
C11_Witness ==
    /\ ExportCompleted
    /\ Len(exSlides) >= 2
    /\ rasterFails
    /\ \E k \in 1..Len(exSlides) : exSlides[k].elements = <<>>
    /\ \E k \in 1..Len(exSlides) :
            /\ exSlides[k].elements # <<>>
            /\ exSlides[k].elements[1].id \in DomIds
            /\ ElementImages(pptxOut[k]) = {}

\* the positions <<slide, element>> after <<si, ei>> in the order of the two
\* loops whose element has a node in the document
RenderedAfter(si, ei) ==
    UNION {{<<s, e>> : e \in {e \in 1..Len(exSlides[s].elements) :
                                /\ s > si \/ e > ei
                                /\ exSlides[s].elements[e].id \in DomIds}} :
           s \in si..Len(exSlides)}

PosBefore(p, q) == p[1] < q[1] \/ (p[1] = q[1] /\ p[2] < q[2])

\* a step in which the capture awaited by generateCustomReport settles and no
\* image is added for its element
FailedElementCapture ==
    /\ exPc = "running"
    /\ <<exPc, exSlideIdx, exElIdx>>' # <<exPc, exSlideIdx, exElIdx>>
    /\ pptxOut'[exSlideIdx] = pptxOut[exSlideIdx]

\* a step in which the capture awaited by generatePowerPoint settles and no
\* slide is added for its widget
FailedWidgetCapture ==
    /\ dashPc = "running"
    /\ <<dashPc, dashIdx>>' # <<dashPc, dashIdx>>
    /\ dashOut' = dashOut

\* the loops of generateCustomReport go on from <<exSlideIdx, exElIdx>>: with
\* the next rendered element, or, when there is none, with the output slides
\* of the remaining slides and the file
ElementLoopGoesOn ==
    LET rest == RenderedAfter(exSlideIdx, exElIdx)
    IN  /\ SubSeq(pptxOut', 1, Len(pptxOut)) = pptxOut
        /\ IF rest = {}
           THEN /\ exPc' = "idle"
                /\ Len(pptxOut') = Len(exSlides)
                /\ pptxWritten' = pptxWritten + 1
           ELSE /\ exPc' = "running"
                /\ <<exSlideIdx', exElIdx'>> \in rest
                /\ \A p \in rest : ~PosBefore(p, <<exSlideIdx', exElIdx'>>)
                /\ Len(pptxOut') = exSlideIdx'
                /\ pptxWritten' = pptxWritten

\* the loop of generatePowerPoint goes on from widget dashIdx: with the next
\* widget, or, after the last, with the file
WidgetLoopGoesOn ==
    IF dashIdx < Len(dashWidgets)
    THEN /\ dashPc' = "running"
         /\ dashIdx' = dashIdx + 1
         /\ dashWritten' = dashWritten
    ELSE /\ dashPc' = "idle"
         /\ dashWritten' = dashWritten + 1

\* C12: in both exports a capture that fails leaves out the image of that
\* element, or the slide of that widget, and nothing else: what was added
\* before is kept, the loop goes on with the next element or widget, and
\* after the last one the file is written.
C12_FailedCaptureSkipsOne ==
    [][/\ FailedElementCapture => ElementLoopGoesOn
       /\ FailedWidgetCapture => WidgetLoopGoesOn]_vars

\* both files are written: in the report the capture of the first of two
\* elements of a slide failed and the second has its image, on the dashboard
\* the capture of the first of two widgets failed and the second has its slide
C12_Witness ==
    /\ ExportCompleted
    /\ \E k \in 1..Len(exSlides) :
            /\ Len(exSlides[k].elements) = 2
            /\ Len(pptxOut[k].images) = 1
            /\ pptxOut[k].images[1].src = exSlides[k].elements[2].id
    /\ dashPc = "idle" /\ dashWritten >= 1
    /\ Len(dashWidgets) = 2
    /\ Len(dashOut) = 2
    /\ dashOut[1].kind = "title"
    /\ dashOut[2] = WidgetSlide(dashWidgets[2], 2)

----------------------------------------------------------------------------
(* Claims about missing resources and the kinds of shapes *)

\* the archive opened and none of its slide or relationships entries throws
\* when read (an entry that throws is caught by the outer try)
NoEntryThrows ==
    /\ archive.openable
    /\ \A i \in 1..Len(slideFiles) :
          /\ slideFiles[i].read # "throws"
          /\ slideFiles[i].rels.read # "throws"

ReadableFiles == SelectSeq(slideFiles, LAMBDA f : f.read = "ok")

\* the archive in which every blob that cannot be read is skipped
SkippingUnreadable(file) ==
    [file EXCEPT !.badBlobs = @ \cup file.deadBlobs, !.deadBlobs = {}]

\* every readable slide file has its slide, holding an element for every shape
\* but the pictures whose resource is missing
AllSlidesDecoded ==
    /\ fileIdx = Len(slideFiles)
    /\ Len(newSlides) = Len(ReadableFiles)
    /\ \A k \in 1..Len(newSlides) :
          Len(newSlides[k].elements) =
              Len(DecodeShapes(ReadableFiles[k].shapes, 1,
                               SlideRelsMap(ReadableFiles[k].rels),
                               SkippingUnreadable(archive), pptWidthEmu, 0))

\* C21: an import whose archive opened and whose entries do not throw goes
\* through every slide file, whatever resource of a picture is missing
\* (presentation.xml, the relationships entry, the relationship id, the
\* target entry, the content of the blob): it ends with a slide for every
\* readable slide file and an element for every shape but those pictures.
C21_AbsentResourceNeverAborts ==
    (upPc = "decoding" /\ NoEntryThrows) ~> (upPc = "idle" /\ AllSlidesDecoded)

\* the picture of the shape can be loaded: its embed id is in the map of the
\* slide and the target is an entry of the archive with a readable blob
ImageLoadable(sh, f) ==
    LET id == IF sh.pic.rEmbed # "" THEN sh.pic.rEmbed ELSE sh.pic.embed
        map == SlideRelsMap(f.rels)
    IN  /\ sh.pic.blip
        /\ id \in DOMAIN map
        /\ map[id] \in archive.media \ (archive.badBlobs \cup archive.deadBlobs)

\* the shape can be placed: it has a position and a size of 5 px or more
Placeable(sh) ==
    /\ HasGeometry(sh)
    /\ ~IsNaN(ConvertedW(sh)) /\ ConvertedW(sh) >= MIN_VISIBLE_PX
    /\ ~IsNaN(ConvertedH(sh)) /\ ConvertedH(sh) >= MIN_VISIBLE_PX

\* the types of the elements decoded from shape i of the slide
TypesOfShape(slide, i) ==
    {slide.elements[k].type : k \in ElementsOfShape(slide, i)}

\* C22: a placeable shape with a picture fill whose image is loadable is
\* imported as one image element; a placeable shape without a picture fill
\* whose text body has text is imported as one text element; a shape with
\* neither a picture fill nor a text body yields no element.
C22_ShapeKinds ==
    \A k \in 1..Len(newSlides) :
        LET f == SourceOf(newSlides[k])
        IN  \A i \in 1..Len(f.shapes) :
                LET sh == f.shapes[i]
                    els == ElementsOfShape(newSlides[k], i)
                IN  Placeable(sh) =>
                        /\ (sh.pic.blipFill /\ ImageLoadable(sh, f)) =>
                                /\ Cardinality(els) = 1
                                /\ TypesOfShape(newSlides[k], i) = {"image"}
                        /\ (/\ ~sh.pic.blipFill /\ sh.txBody.has
                            /\ TrimIsNonEmpty(ExtractText(sh.txBody.paras).text)) =>
                                /\ Cardinality(els) = 1
                                /\ TypesOfShape(newSlides[k], i) = {"text"}
                        /\ (~sh.pic.blipFill /\ ~sh.txBody.has) => els = {}

\* the slides at the end of the editor's list, as many as were decoded
ImportedTail == SubSeq(slides, Len(slides) - Len(newSlides) + 1, Len(slides))

\* C23: an import that ran to its end decoded exactly one slide for every
\* slide file with readable XML, in the numeric order of the files and
\* whether or not the file yielded an element; when it commits (some slide
\* was decoded), these slides are the end of the editor's list.
C23_BlankSlidesAreEmitted ==
    UploadCompleted =>
        /\ Len(newSlides) = Len(ReadableFiles)
        /\ \A k \in 1..Len(newSlides) :
              newSlides[k].id[3] = ReadableFiles[k].digits
        /\ newSlides # <<>> =>
              /\ Len(slides) >= Len(newSlides)
              /\ ImportedTail = newSlides

\* an import of three slide files has committed: the first file has no
\* shape, the second has a text, the third is stored empty
C23_Witness ==
    /\ UploadCompleted
    /\ Len(slideFiles) = 3
    /\ slideFiles[1].read = "ok" /\ slideFiles[1].shapes = <<>>
    /\ slideFiles[3].read = "empty"
    /\ Len(newSlides) = 2
    /\ newSlides[1].elements = <<>> /\ newSlides[2].elements # <<>>
    /\ ImportedTail = newSlides
    /\ projectLog # <<>>

----------------------------------------------------------------------------
(* Claims about the editor's slide list *)

\* a step of handlePptxUpload, and the one that ends its loop
ImportStep == upPc' # upPc \/ fileIdx' # fileIdx
ImportEnds ==
    upPc = "decoding" /\ fileIdx = Len(slideFiles) /\ upPc' = "idle"

\* a step of handleExport and generateCustomReport
ExportStep == <<exPc, exSlideIdx, exElIdx>>' # <<exPc, exSlideIdx, exElIdx>>

\* some decoded slide has an element
YieldsElements == \E k \in 1..Len(newSlides) : newSlides[k].elements # <<>>

\* C24: the import and the export leave the slides of the editor as they
\* are: the step that ends an import in which some slide yielded an element
\* appends the decoded slides after the slides present, which keep their
\* place and content; every other step of an import (a failed one, one in
\* which no slide yielded an element) and every step of an export leaves the
\* list unchanged.
C24_EngineKeepsSlides ==
    [][/\ (ImportStep /\ ImportEnds /\ YieldsElements)
            => slides' = slides \o newSlides
       /\ (ImportStep /\ ~(ImportEnds /\ YieldsElements)) => slides' = slides
       /\ ExportStep => slides' = slides]_vars

----------------------------------------------------------------------------
(* Claims about the dashboard export *)

\* generatePowerPoint returned after writing the file
DashCompleted == dashPc = "idle" /\ dashWritten >= 1

\* the positions of the widgets whose capture succeeded, in document order
RECURSIVE CapturedFrom(_)
CapturedFrom(i) ==
    IF i > Len(dashWidgets) THEN <<>>
    ELSE (IF dashWidgets[i].renders THEN <<i>> ELSE <<>>) \o CapturedFrom(i + 1)

\* C25: the file of the dashboard starts with the title slide and holds after
\* it one slide for every widget whose capture succeeded, in the order of the
\* widgets in the document; the title slide carries the filter line exactly
\* when the filter string is not empty, i.e. when there is a filter.
C25_DashboardSlides ==
    DashCompleted =>
        LET captured == CapturedFrom(1)
        IN  /\ Len(dashOut) = 1 + Len(captured)
            /\ dashOut[1].kind = "title"
            /\ (dashOut[1].filters # <<>>) <=> (dashFilters # <<>>)
            /\ \A k \in 1..Len(captured) :
                  /\ dashOut[k + 1].kind = "widget"
                  /\ dashOut[k + 1].widget = captured[k]
                  /\ dashOut[k + 1].filters = <<>>

\* a file with the filter line and the slide of the second of two widgets
\* (the capture of the first failed), and one without the filter line
C25_Witness ==
    /\ DashCompleted
    /\ Len(dashWidgets) = 2
    /\ ~dashWidgets[1].renders /\ dashWidgets[2].renders
    /\ dashFilters = <<Filter("", "")>>
    /\ dashOut[1].filters = <<"Filters Applied: ", "=">>
    /\ Len(dashOut) = 2
    /\ dashOut[2].widget = 2

----------------------------------------------------------------------------
(* Claims about the attributes of pictures and paragraphs *)

\* the picture shapes of the slide files, with their decoded slide
DecodedPictures ==
    {<<k, i>> \in (1..Len(newSlides)) \X (1..MaxShapes) :
        /\ i <= Len(SourceOf(newSlides[k]).shapes)
        /\ SourceOf(newSlides[k]).shapes[i].localName = "pic"
        /\ SourceOf(newSlides[k]).shapes[i].pic.blip
        /\ Placeable(SourceOf(newSlides[k]).shapes[i])}

\* the contents of the elements decoded from shape i of slide k
ContentsOfShape(k, i) ==
    {newSlides[k].elements[e].content : e \in ElementsOfShape(newSlides[k], i)}

\* what the relationship id resolves to: the image behind it, if any
ResolvedThrough(id, f) ==
    LET map == SlideRelsMap(f.rels)
    IN  IF id \in DOMAIN map /\ map[id] \in archive.media \ archive.badBlobs
        THEN {DataUrl(map[id])}
        ELSE {}

\* C26: a picture is resolved through the attribute r:embed of its blip when
\* that attribute is present and not empty, whatever the attribute embed
\* says, and through embed only otherwise.
C26_FirstEmbedNameWins ==
    \A p \in DecodedPictures :
        LET f == SourceOf(newSlides[p[1]])
            pic == f.shapes[p[2]].pic
        IN  ContentsOfShape(p[1], p[2]) =
                IF pic.rEmbed # "" THEN ResolvedThrough(pic.rEmbed, f)
                ELSE ResolvedThrough(pic.embed, f)

\* a picture with r:embed naming the first image and embed the second was
\* imported with the first image
C26_Witness ==
    /\ UploadCompleted
    /\ \E p \in DecodedPictures :
          LET pic == SourceOf(newSlides[p[1]]).shapes[p[2]].pic
          IN  /\ pic.rEmbed = "rId1" /\ pic.embed = "rId2"
              /\ ContentsOfShape(p[1], p[2]) = {DataUrl(ImagePath)}
              /\ slides[Len(slides)] = newSlides[p[1]]

\* the text shapes of the slide files that were imported as an element
DecodedTexts ==
    {<<k, i>> \in (1..Len(newSlides)) \X (1..MaxShapes) :
        /\ i <= Len(SourceOf(newSlides[k]).shapes)
        /\ SourceOf(newSlides[k]).shapes[i].localName = "sp"
        /\ \E e \in ElementsOfShape(newSlides[k], i) :
              newSlides[k].elements[e].type = "text"}

\* the paragraphs that carry the code ctr or r
Aligning(paras) == {p \in 1..Len(paras) : paras[p].algn \in {"ctr", "r"}}

\* the alignment the last of these paragraphs asks for, left without one
AlignmentOf(paras) ==
    IF Aligning(paras) = {} THEN "left"
    ELSE LET last == CHOOSE p \in Aligning(paras) :
                        \A q \in Aligning(paras) : q <= p
         IN  IF paras[last].algn = "ctr" THEN "center" ELSE "right"

\* C27: an imported text element is aligned as the last paragraph with the
\* code ctr or r says (center, right), and left when no paragraph has one of
\* these codes; paragraphs with l, another code or none change nothing.
C27_LastAlignmentWins ==
    \A t \in DecodedTexts :
        LET paras == SourceOf(newSlides[t[1]]).shapes[t[2]].txBody.paras
        IN  \A e \in ElementsOfShape(newSlides[t[1]], t[2]) :
                newSlides[t[1]].elements[e].style.textAlign = AlignmentOf(paras)

\* a text whose first paragraph is centred and whose second has the code l
\* was imported centred
C27_Witness ==
    /\ UploadCompleted
    /\ \E t \in DecodedTexts :
          LET paras == SourceOf(newSlides[t[1]]).shapes[t[2]].txBody.paras
          IN  /\ Len(paras) = 2
              /\ paras[1].algn = "ctr" /\ paras[2].algn = "l"
              /\ slides[Len(slides)].elements[1].style.textAlign = "center"

----------------------------------------------------------------------------
(* Claims about the slide list under concurrent edits *)

\* C28: the editor always has a slide, and activeSlideIdx is the index of one
\* of its slides.
C28_ActiveSlideExists ==
    /\ Len(slides) >= 1
    /\ 0 <= activeSlideIdx /\ activeSlideIdx < Len(slides)

\* C29: the step that commits an import hands onUpdateProject and
\* saveProject a reportConfig equal to the slide list the editor has after
\* that step: the slides present at that moment followed by the imported
\* ones.
C29_SavedConfigIsSlideList ==
    [][(ImportStep /\ ImportEnds /\ newSlides # <<>>) =>
        /\ slides' = slides \o newSlides
        /\ projectLog' = Append(projectLog, slides')]_vars

----------------------------------------------------------------------------
(* Claims about the AI agent grid *)

\* the rows of the grid that executeAction sent to the AI: those of the
\* filtered view in the selected range, by their position in the grid
SentRows ==
    {r._originalIndex + 1 :
        r \in RangeOf(getSelectedData(aiClosure.displayData, aiClosure.selection))}

\* C30: the step that applies the AI results changes nothing but the target
\* column of the rows that were sent: the grid keeps its rows, and every cell
\* of a hidden or unselected row, and every cell of another column, keeps the
\* value it has when the results arrive, whatever happened to the grid while
\* the call was pending.
C30_OnlyTargetCellsWritten ==
    [][(aiPc = "pending" /\ aiPc' = "idle") =>
        /\ Len(gridData') = Len(gridData)
        /\ \A i \in 1..Len(gridData) : \A key \in RowKeys :
              (i \notin SentRows \/ key # aiClosure.targetCol)
                  => gridData'[i][key] = gridData[i][key]]_vars

====
